---- MODULE Spec2Model ----
(***************************************************************************)
(* luminaPDF: the worker-pool scheduler (RenderPool.ts), the tile          *)
(* component that calls it (PDFTile.tsx), the rasterization workers        *)
(* (pdf.worker.ts), the geometry engine (TileManager) and the tile layer   *)
(* that reconciles its cache on every pass (TileLayer.tsx), the transform   *)
(* hook (useViewportTransform.ts) and the scroll-based zoom controller     *)
(* (useZoom.ts with App and PdfViewer.tsx), the proof-of-concept viewport  *)
(* (ViewportPOC.tsx), the zoom state of App.tsx with the layout effects of *)
(* PdfViewer.tsx, and the page virtualizer (useVirtualizer.ts), as one     *)
(* state machine.                                                          *)
(*                                                                         *)
(* The coordinator thread runs every handler to completion, so one action  *)
(* is one handler.  A worker handler is asynchronous (it awaits I/O), so   *)
(* the answers of the workers reach the pool in any order.                 *)
(***************************************************************************)
EXTENDS Integers, FiniteSets, Sequences, TLC

\* ------------------------------------------------------------------ bounds
NumWorkers == 2      \* config.maxWorkers, the size of the pool
MaxLoads   == 2      \* loadDocument calls in one behaviour
MaxRenders == 3      \* renderTile calls (PDFTile mounts) in one behaviour
NumTileIds == 4      \* distinct tile ids
MaxCalls   == 3      \* loadDocument and renderTile calls together
MaxZoomOps == 3      \* zoomToPoint, pan and setTransform calls in one behaviour
MaxZoomEvents == 3   \* useZoom handler calls and user scrolls in one behaviour
MaxFrames  == 2      \* frames of one animated toolbar zoom
MaxViewerEvents == 4 \* events of App and PdfViewer in one behaviour
MaxPages   == 3      \* pages of the document the virtualizer shows

Workers   == 0 .. (NumWorkers - 1)
LoadCalls == 1 .. MaxLoads
Calls     == 1 .. MaxRenders
TileIds   == 1 .. NumTileIds

Null == 0            \* null / undefined / no entry

VARIABLES
    \* RenderPool fields
    workerRoundRobin,  \* index of the worker the next renderTile goes to
    jobQueue,          \* tile id -> call whose resolve/reject the entry holds
    pendingLoad,       \* the PendingDocumentLoad record, call = Null when null
    \* loadDocument calls and their promises
    nLoads,            \* number of loadDocument calls made
    loadPromise,       \* per call: state of the returned promise
    loadMsg,           \* per call: LOAD_DOCUMENT messages not yet answered, and the
                       \* DOCUMENT_LOADED / DOCUMENT_ERROR answers delivered to the pool
    \* renderTile calls and their promises
    nRenders,          \* number of renderTile calls made
    tileOf,            \* per call: tile.id
    workerOf,          \* per call: workerIndex the RENDER_TILE was posted to
    promise,           \* per call: state of the returned promise
    tileMsg,           \* per call: RENDER_TILE sent / answer delivered
    \* PDFTile instances (one per renderTile call)
    isMounted,         \* the isMounted flag of the fetch effect
    bitmap,            \* the committed `bitmap` state of the component
    pendingBitmap,     \* setBitmap(bmp) called, re-render not yet committed
    isReady,           \* isReady of the tile-cache entry the component reports to
    \* ImageBitmap objects (bitmap b is the one made for RENDER_TILE of call b)
    closed,            \* number of close() calls on the bitmap
    \* the rasterization workers (pdf.worker.ts), one instance per pool slot
    url,               \* per loadDocument call: the url argument
    pdfDoc,            \* per worker: the module variable pdfDoc (the call whose
                       \* document it holds, Null when null)
    inbox,             \* per worker: messages posted to it, onmessage not yet run
    handling,          \* per worker: messages whose handler is suspended at an await
    returned,          \* messages whose handler returned without posting an answer
    \* TileLayer (one instance)
    viewportTransform, \* the viewportTransform prop of the last render
    tileCache,         \* tileCacheRef.current: CachedTile entries in insertion order
    tilesToRender,     \* the render list of the last pass: ids of cache entries
    passParity,        \* number of passes of the tilesToRender memo, modulo 2
    \* TileManager instances and the calls made on them
    configGiven,       \* per manager: the config object passed to the constructor
    manager,           \* per manager: this.config
    geomOn,            \* per call: the manager it is made on
    geomArgs,          \* per call: viewport, transform, contentSize, pageIndex
    geomDone,          \* the calls made: <<call, "tiles">>, <<call, "lod">>
    geomTiles,         \* per call: the array getVisibleTiles returned
    geomLod,           \* per call: the number getLodForScale returned
    \* useViewportTransform
    transformRef,      \* transform.current: {x, y, scale}
    nZoomOps,          \* number of zoomToPoint, pan and setTransform calls made
    zoomRun,           \* the zoomToPoint calls made in a row at one pivot
    rafId,             \* rafId.current, Null when null
    framesPending,     \* requestAnimationFrame(applyTransform) calls not yet run
    viewportMounted,   \* viewportRef.current is the element
    styleTransform,    \* the x, y, scale of the element's style.transform
    gridState,         \* the gridState state of ViewportPOC
    lastUpdateRef,     \* lastUpdateRef.current
    now,               \* Date.now()
    \* App, useZoom and the scroll container of PdfViewer
    appScale,          \* the scale state, as rendered and laid out
    pendingScale,      \* the value given to setScale and not yet rendered
    scrollPos,         \* container.scrollLeft, container.scrollTop
    scheduledFrame,    \* the callback given to requestAnimationFrame
    nZoomEvents,       \* number of handler calls and user scrolls made
    anchor,            \* the focal point of the scale changes made in a row and the
                       \* content point that was under it before the first of them
    zoomSteps,         \* the steps of the last scale change, in order
    \* ViewportPOC
    isWorkersReady,    \* the isWorkersReady state
    effectOf,          \* the load call of the load effect whose isMounted is true
    resumed,           \* the load calls whose `await pool.loadDocument` returned
    \* App.tsx and PdfViewer
    viewScale,         \* the scale state of App, in thousandths
    renderedScale,     \* the renderedScale state, in thousandths
    zoomFocalPoint,    \* the zoomFocalPoint state: a screen point, Null when null
    isFitToScreenAction, \* the isFitToScreenAction state
    pageNumber,        \* the pageNumber state
    isPinchingRef,     \* isPinchingRef.current
    touchStartScaleRef, \* touchStartScaleRef.current
    zoomTimeoutRef,    \* the scale the waiting debounce timer will commit, Null when
                       \* no timer is waiting
    dimensionsKnown,   \* pageDimensions and containerDimensions are set
    transformOrigin,   \* the transformOrigin state of PdfViewer
    zoomStateRef,      \* zoomStateRef.current: the point it was captured at
    prevPageNumberRef, \* prevPageNumberRef.current
    containerScroll,   \* where the scroll container stands: "origin" (0, 0), "user"
                       \* (where the user scrolled to), "anchor" (where the restore
                       \* effect puts a captured focal point under its screen point),
                       \* "shifted" (moved by the scrollBy of the origin reset)
    nViewerEvents,     \* number of events handled
    lastEvent,         \* the last event handled
    \* useVirtualizer
    virtIn,            \* what calculateVisibleRange reads
    virtState,         \* the state of the hook
    virtDone           \* virtState is the result for virtIn

loadVars == <<pendingLoad, nLoads, loadPromise, loadMsg>>
poolTileVars == <<workerRoundRobin, jobQueue, nRenders, tileOf, workerOf, promise, tileMsg>>
tileCompVars == <<isMounted, bitmap, pendingBitmap, isReady, closed>>
workerVars == <<url, pdfDoc, inbox, handling, returned>>
layerVars == <<viewportTransform, tileCache, tilesToRender, passParity>>
geomVars == <<configGiven, manager, geomOn, geomArgs, geomDone, geomTiles, geomLod>>
hookVars == <<rafId, framesPending, viewportMounted, styleTransform, gridState, lastUpdateRef, now>>
zoomVars == <<transformRef, nZoomOps, zoomRun, hookVars>>
scrollVars == <<appScale, pendingScale, scrollPos, scheduledFrame, nZoomEvents, anchor, zoomSteps>>
pocVars == <<isWorkersReady, effectOf, resumed>>
viewerVars == <<viewScale, renderedScale, zoomFocalPoint, isFitToScreenAction, pageNumber,
                isPinchingRef, touchStartScaleRef, zoomTimeoutRef, dimensionsKnown,
                transformOrigin, zoomStateRef, prevPageNumberRef, containerScroll,
                nViewerEvents, lastEvent>>
virtVars == <<virtIn, virtState, virtDone>>
moreVars == <<pocVars, viewerVars, virtVars>>
pureVars == <<geomVars, zoomVars, scrollVars, moreVars>>
vars == <<workerRoundRobin, jobQueue, pendingLoad, nLoads, loadPromise, loadMsg,
          nRenders, tileOf, workerOf, promise, tileMsg,
          isMounted, bitmap, pendingBitmap, isReady, closed,
          url, pdfDoc, inbox, handling, returned,
          viewportTransform, tileCache, tilesToRender, passParity,
          configGiven, manager, geomOn, geomArgs, geomDone, geomTiles, geomLod,
          transformRef, nZoomOps, zoomRun,
          rafId, framesPending, viewportMounted, styleTransform, gridState, lastUpdateRef, now,
          appScale, pendingScale, scrollPos, scheduledFrame, nZoomEvents, anchor, zoomSteps,
          isWorkersReady, effectOf, resumed,
          viewScale, renderedScale, zoomFocalPoint, isFitToScreenAction, pageNumber,
          isPinchingRef, touchStartScaleRef, zoomTimeoutRef, dimensionsKnown,
          transformOrigin, zoomStateRef, prevPageNumberRef, containerScroll,
          nViewerEvents, lastEvent, virtIn, virtState, virtDone>>

\* ------------------------------------------------------------ promises
\* A promise settles at most once; later resolve/reject calls are no-ops,
\* but every call is counted.
NewLoadPromise == [state |-> "pending", calls |-> 0, reason |-> "none", dims |-> Null]
NoLoadPromise  == [state |-> "none", calls |-> 0, reason |-> "none", dims |-> Null]

ResolveLoad(lp, p, d) ==
    [lp EXCEPT ![p] = IF @.state = "pending"
                      THEN [state |-> "resolved", calls |-> @.calls + 1, reason |-> "none", dims |-> d]
                      ELSE [@ EXCEPT !.calls = @ + 1]]

RejectLoad(lp, p, why) ==
    [lp EXCEPT ![p] = IF @.state = "pending"
                      THEN [state |-> "rejected", calls |-> @.calls + 1, reason |-> why, dims |-> Null]
                      ELSE [@ EXCEPT !.calls = @ + 1]]

NoLoad == [call |-> Null, loadedCount |-> 0, dimensions |-> Null, rejected |-> FALSE]

\* -------------------------------------------------------------- Init
\* the pool, its tile components, the workers and the tile layer
PoolInit ==
    /\ workerRoundRobin = 0
    /\ jobQueue = [t \in TileIds |-> Null]
    /\ pendingLoad = NoLoad
    /\ nLoads = 0
    /\ loadPromise = [p \in LoadCalls |-> NoLoadPromise]
    /\ loadMsg = [p \in LoadCalls |-> [sent |-> 0, loaded |-> 0, error |-> 0]]
    /\ nRenders = 0
    /\ tileOf = [c \in Calls |-> Null]
    /\ workerOf = [c \in Calls |-> Null]
    /\ promise = [c \in Calls |-> [state |-> "none", calls |-> 0, value |-> Null, by |-> Null]]
    /\ tileMsg = [c \in Calls |-> "none"]
    /\ isMounted = [c \in Calls |-> FALSE]
    /\ bitmap = [c \in Calls |-> Null]
    /\ pendingBitmap = [c \in Calls |-> Null]
    /\ isReady = [c \in Calls |-> FALSE]
    /\ closed = [c \in Calls |-> 0]
    /\ url = [p \in LoadCalls |-> "none"]
    /\ pdfDoc = [w \in Workers |-> Null]
    /\ inbox = [w \in Workers |-> << >>]
    /\ handling = [w \in Workers |-> {}]
    /\ returned = {}
    /\ viewportTransform = [x |-> 0, y |-> 0, scale |-> 1]
    /\ tileCache = << >>
    /\ tilesToRender = << >>
    /\ passParity = 0

\* the geometry engine: no manager constructed, no call made
Managers == {1, 2}
GeomCalls == {1, 2}
NoNumber == [n |-> 0, d |-> 1]
NoArgs == [viewport |-> [width |-> NoNumber, height |-> NoNumber],
           transform |-> [x |-> NoNumber, y |-> NoNumber, scale |-> NoNumber],
           contentSize |-> [width |-> NoNumber, height |-> NoNumber],
           pageIndex |-> 0]

NoConfig == [tileSize |-> 0, buffer |-> 0, lodLevels |-> << >>]

GeomIdle ==
    /\ configGiven = [m \in Managers |-> NoConfig]
    /\ manager = [m \in Managers |-> NoConfig]
    /\ geomOn = [k \in GeomCalls |-> 1]
    /\ geomArgs = [k \in GeomCalls |-> NoArgs]
    /\ geomDone = {}
    /\ geomTiles = [k \in GeomCalls |-> << >>]
    /\ geomLod = [k \in GeomCalls |-> NoNumber]

\* useViewportTransform: useRef({ x: 0, y: 0, scale: 1 })
NoZoomRun == [calls |-> 0, pivot |-> [x |-> NoNumber, y |-> NoNumber],
              world |-> [x |-> NoNumber, y |-> NoNumber], clamped |-> FALSE]

ThrottleMs == 50     \* the update throttle of ViewportPOC
StartTime == 2 * ThrottleMs

ZoomIdle ==
    /\ transformRef = [x |-> NoNumber, y |-> NoNumber, scale |-> [n |-> 1, d |-> 1]]
    /\ nZoomOps = 0
    /\ zoomRun = NoZoomRun
    /\ rafId = Null
    /\ framesPending = 0
    /\ viewportMounted = FALSE
    /\ styleTransform = [x |-> NoNumber, y |-> NoNumber, scale |-> [n |-> 1, d |-> 1]]
    /\ gridState = [x |-> NoNumber, y |-> NoNumber, scale |-> [n |-> 1, d |-> 1]]
    /\ lastUpdateRef = 0
    /\ now = StartTime

NoFrame == [kind |-> "none", oldScale |-> NoNumber, newScale |-> NoNumber, frame |-> 0]
NoAnchor == [live |-> FALSE, off |-> [x |-> NoNumber, y |-> NoNumber],
             doc |-> [x |-> NoNumber, y |-> NoNumber]]

ScrollIdle ==
    /\ appScale = [n |-> 1, d |-> 1]
    /\ pendingScale = NoNumber
    /\ scrollPos = [left |-> NoNumber, top |-> NoNumber]
    /\ scheduledFrame = NoFrame
    /\ nZoomEvents = 0
    /\ anchor = NoAnchor
    /\ zoomSteps = << >>

PocIdle ==
    /\ isWorkersReady = FALSE
    /\ effectOf = Null
    /\ resumed = {}

\* the screen point handleToolbarZoom computes: the centre of the container
CenterPoint == 3

ViewerIdle ==
    /\ viewScale = 1000
    /\ renderedScale = 1000
    /\ zoomFocalPoint = Null
    /\ isFitToScreenAction = FALSE
    /\ pageNumber = 1
    /\ isPinchingRef = FALSE
    /\ touchStartScaleRef = 1000
    /\ zoomTimeoutRef = Null
    /\ dimensionsKnown = FALSE
    /\ transformOrigin = "top left"
    /\ zoomStateRef = Null
    /\ prevPageNumberRef = 1
    /\ containerScroll = "origin"
    /\ nViewerEvents = 0
    /\ lastEvent = "none"

\* the useState initializer of useVirtualizer
InitialVirtState ==
    [visibleRange |-> <<1, 5>>, renderRange |-> <<1, 7>>, topSpacerHeight |-> 0,
     bottomSpacerHeight |-> 0, currentPage |-> 1]

\* before a document is shown: no pages, no container
VirtIdle ==
    /\ virtIn = [numPages |-> 0, isEnabled |-> FALSE, hasContainer |-> FALSE,
                 scrollTop |-> 0, clientHeight |-> 0, scale |-> 1,
                 base |-> Null, dims |-> [i \in 1 .. MaxPages |-> Null]]
    /\ virtState = InitialVirtState
    /\ virtDone = FALSE

MoreIdle == PocIdle /\ ViewerIdle /\ VirtIdle

Init == PoolInit /\ GeomIdle /\ ZoomIdle /\ ScrollIdle /\ MoreIdle

\* ------------------------------------------------- RenderPool: loads
\* loadDocument(url): reject the outstanding load, install a fresh record,
\* broadcast LOAD_DOCUMENT to every worker.  The document of call p has
\* dimensions p.
\* variant of LoadDocument: the outstanding load is not rejected
LoadDocumentNoSupersede ==
    /\ nLoads < MaxLoads
    /\ nLoads + nRenders < MaxCalls
    /\ LET p == nLoads + 1
       IN /\ nLoads' = p
          /\ loadPromise' = [loadPromise EXCEPT ![p] = NewLoadPromise]
          /\ pendingLoad' = [call |-> p, loadedCount |-> 0, dimensions |-> Null, rejected |-> FALSE]
          /\ loadMsg' = [loadMsg EXCEPT ![p] = [sent |-> NumWorkers, loaded |-> 0, error |-> 0]]

LoadDocument ==
    /\ nLoads < MaxLoads
    /\ nLoads + nRenders < MaxCalls
    /\ LET p   == nLoads + 1
           lp1 == IF pendingLoad.call # Null /\ ~pendingLoad.rejected
                  THEN RejectLoad(loadPromise, pendingLoad.call, "superseded")
                  ELSE loadPromise
       IN /\ nLoads' = p
          /\ loadPromise' = [lp1 EXCEPT ![p] = NewLoadPromise]
          /\ pendingLoad' = [call |-> p, loadedCount |-> 0, dimensions |-> Null, rejected |-> FALSE]
          /\ loadMsg' = [loadMsg EXCEPT ![p] = [sent |-> NumWorkers, loaded |-> 0, error |-> 0]]

\* handleDocumentLoaded(workerIndex, width, height); d stands for {width, height}.
\* The handler never reads workerIndex.
HandleDocumentLoaded(d) ==
    IF pendingLoad.call = Null
    THEN UNCHANGED <<pendingLoad, loadPromise>>
    ELSE LET count == pendingLoad.loadedCount + 1
             dims  == IF pendingLoad.dimensions = Null THEN d ELSE pendingLoad.dimensions
         IN IF count >= NumWorkers
            THEN /\ loadPromise' = ResolveLoad(loadPromise, pendingLoad.call, dims)
                 /\ pendingLoad' = NoLoad
            ELSE /\ pendingLoad' = [pendingLoad EXCEPT !.loadedCount = count, !.dimensions = dims]
                 /\ UNCHANGED loadPromise

\* variant of HandleDocumentError: the record is flagged but not dropped
HandleDocumentErrorKeepsRecord ==
    IF pendingLoad.call = Null \/ pendingLoad.rejected
    THEN UNCHANGED <<pendingLoad, loadPromise>>
    ELSE /\ loadPromise' = RejectLoad(loadPromise, pendingLoad.call, "worker")
         /\ pendingLoad' = [pendingLoad EXCEPT !.rejected = TRUE]

\* handleDocumentError(workerIndex, error); the handler never reads workerIndex.
HandleDocumentError ==
    IF pendingLoad.call = Null \/ pendingLoad.rejected
    THEN UNCHANGED <<pendingLoad, loadPromise>>
    ELSE /\ loadPromise' = RejectLoad(loadPromise, pendingLoad.call, "worker")
         /\ pendingLoad' = NoLoad

\* a worker answers the LOAD_DOCUMENT of call p with DOCUMENT_LOADED;
\* the document of call p has dimensions p
DocumentLoaded(p) ==
    /\ loadMsg[p].sent > 0
    /\ loadMsg' = [loadMsg EXCEPT ![p].sent = @ - 1, ![p].loaded = @ + 1]
    /\ HandleDocumentLoaded(p)
    /\ UNCHANGED nLoads

\* a worker answers the LOAD_DOCUMENT of call p with DOCUMENT_ERROR
DocumentError(p) ==
    /\ loadMsg[p].sent > 0
    /\ loadMsg' = [loadMsg EXCEPT ![p].sent = @ - 1, ![p].error = @ + 1]
    /\ HandleDocumentError
    /\ UNCHANGED nLoads

\* ------------------------------------------------- RenderPool: tiles
NewTilePromise == [state |-> "pending", calls |-> 0, value |-> Null, by |-> Null]

\* resolve(bitmap) of the promise of call c; m is the message that carries it
ResolveTile(pr, c, b, m) ==
    [pr EXCEPT ![c] = IF @.state = "pending"
                      THEN [state |-> "resolved", calls |-> @.calls + 1, value |-> b, by |-> m]
                      ELSE [@ EXCEPT !.calls = @ + 1]]

\* reject(error) of the promise of call c
RejectTile(pr, c, m) ==
    [pr EXCEPT ![c] = IF @.state = "pending"
                      THEN [state |-> "rejected", calls |-> @.calls + 1, value |-> Null, by |-> m]
                      ELSE [@ EXCEPT !.calls = @ + 1]]

\* bitmap.close()
Close(cl, b) == [cl EXCEPT ![b] = @ + 1]

\* variant of NextWorker: the index advances by two
NextWorkerSkips(rr) == (rr + 2) % NumWorkers

\* the round-robin step of renderTile
NextWorker(rr) == (rr + 1) % NumWorkers

\* renderTile(tile) for call c: pick the worker, register the job, post RENDER_TILE
RenderTile(c, t) ==
    /\ workerOf' = [workerOf EXCEPT ![c] = workerRoundRobin]
    /\ workerRoundRobin' = NextWorker(workerRoundRobin)
    /\ jobQueue' = [jobQueue EXCEPT ![t] = c]
    /\ tileOf' = [tileOf EXCEPT ![c] = t]
    /\ promise' = [promise EXCEPT ![c] = NewTilePromise]
    /\ tileMsg' = [tileMsg EXCEPT ![c] = "sent"]
    /\ nRenders' = c

\* cancelTile(tileId): the job table without the entry of that id
CancelTile(q, t) == [q EXCEPT ![t] = Null]

\* the .then callback of the fetch effect, run for call c with bitmap b
ThenCallback(c, b) ==
    IF isMounted[c]
    THEN /\ pendingBitmap' = [pendingBitmap EXCEPT ![c] = b]     \* setBitmap(bmp)
         /\ UNCHANGED closed
    ELSE /\ closed' = Close(closed, b)
         /\ UNCHANGED pendingBitmap

\* variant of HandleTileReady: the entry stays in the table
HandleTileReadyKeepsEntry(t, m) ==
    LET job == jobQueue[t] IN
    IF job # Null
    THEN /\ promise' = ResolveTile(promise, job, m, m)
         /\ UNCHANGED jobQueue
         /\ IF promise[job].state = "pending"
            THEN ThenCallback(job, m)
            ELSE UNCHANGED <<pendingBitmap, closed>>
    ELSE /\ closed' = Close(closed, m)
         /\ UNCHANGED <<promise, jobQueue, pendingBitmap>>

\* handleTileReady(id, bitmap) for the answer m (bitmap m) of tile id t,
\* followed by the promise reaction it schedules
HandleTileReady(t, m) ==
    LET job == jobQueue[t] IN
    IF job # Null
    THEN /\ promise' = ResolveTile(promise, job, m, m)
         /\ jobQueue' = CancelTile(jobQueue, t)
         /\ IF promise[job].state = "pending"
            THEN ThenCallback(job, m)
            ELSE UNCHANGED <<pendingBitmap, closed>>
    ELSE /\ closed' = Close(closed, m)
         /\ UNCHANGED <<promise, jobQueue, pendingBitmap>>

\* variant of HandleTileError: the entry stays in the table
HandleTileErrorKeepsEntry(t, m) ==
    LET job == jobQueue[t] IN
    IF job # Null
    THEN /\ promise' = RejectTile(promise, job, m)
         /\ UNCHANGED jobQueue
    ELSE UNCHANGED <<promise, jobQueue>>

\* variant of HandleTileError: every registered job is rejected and dropped
HandleTileErrorRejectsAll(t, m) ==
    IF jobQueue[t] # Null
    THEN /\ promise' = [c \in Calls |->
                           IF \E u \in TileIds : jobQueue[u] = c
                           THEN RejectTile(promise, c, m)[c] ELSE promise[c]]
         /\ jobQueue' = [u \in TileIds |-> Null]
    ELSE UNCHANGED <<promise, jobQueue>>

\* handleTileError(id, error) for the answer m of tile id t
HandleTileError(t, m) ==
    LET job == jobQueue[t] IN
    IF job # Null
    THEN /\ promise' = RejectTile(promise, job, m)
         /\ jobQueue' = CancelTile(jobQueue, t)
    ELSE UNCHANGED <<promise, jobQueue>>

\* ------------------------------------------------------------ PDFTile
\* A PDFTile for tile t is mounted: its fetch effect calls renderTile(tile).
\* Tile ids are only compared for equality, so a new id is the least unused one.
\* The pool is one instance per process (getInstance) shared by every mounted
\* PDFTile, and renderTile does not look for an existing entry, so an id that
\* is already in flight may be requested again.
Mount(t) ==
    /\ nRenders < MaxRenders
    /\ \A u \in TileIds : u < t => \E c \in Calls : tileOf[c] = u
    /\ nLoads + nRenders < MaxCalls
    /\ LET c == nRenders + 1
       IN /\ RenderTile(c, t)
          /\ isMounted' = [isMounted EXCEPT ![c] = TRUE]
    /\ UNCHANGED <<bitmap, pendingBitmap, isReady, closed>>
    /\ UNCHANGED loadVars

\* The PDFTile of call c is unmounted: the fetch effect's cleanup cancels the
\* tile, the bitmap effect's cleanup closes the bitmap of the last committed
\* render; a state update that was never rendered is dropped.
Unmount(c) ==
    /\ isMounted[c]
    /\ isMounted' = [isMounted EXCEPT ![c] = FALSE]
    /\ jobQueue' = CancelTile(jobQueue, tileOf[c])
    /\ closed' = IF bitmap[c] # Null THEN Close(closed, bitmap[c]) ELSE closed
    /\ bitmap' = [bitmap EXCEPT ![c] = Null]
    /\ pendingBitmap' = [pendingBitmap EXCEPT ![c] = Null]
    /\ isReady' = [isReady EXCEPT ![c] = FALSE]
    /\ UNCHANGED <<workerRoundRobin, nRenders, tileOf, workerOf, promise, tileMsg>>
    /\ UNCHANGED loadVars

\* The re-render scheduled by setBitmap is committed: the cleanup of the
\* previous bitmap effect closes the previous bitmap, the layout effect draws
\* the new one and calls onReady(tile.id), which marks the cache entry ready.
Commit(c) ==
    /\ isMounted[c]
    /\ pendingBitmap[c] # Null
    /\ closed' = IF bitmap[c] # Null THEN Close(closed, bitmap[c]) ELSE closed
    /\ bitmap' = [bitmap EXCEPT ![c] = pendingBitmap[c]]
    /\ pendingBitmap' = [pendingBitmap EXCEPT ![c] = Null]
    /\ isReady' = [isReady EXCEPT ![c] = TRUE]
    /\ UNCHANGED isMounted
    /\ UNCHANGED poolTileVars
    /\ UNCHANGED loadVars

\* ------------------------------------------------- answers of a worker
\* The worker answers the RENDER_TILE of call m with TILE_READY {id, bitmap}
TileReady(m) ==
    /\ tileMsg[m] = "sent"
    /\ tileMsg' = [tileMsg EXCEPT ![m] = "ready"]
    /\ HandleTileReady(tileOf[m], m)
    /\ UNCHANGED <<workerRoundRobin, nRenders, tileOf, workerOf, isMounted, bitmap, isReady>>
    /\ UNCHANGED loadVars

\* The worker answers the RENDER_TILE of call m with TILE_ERROR {id, error}
TileError(m) ==
    /\ tileMsg[m] = "sent"
    /\ tileMsg' = [tileMsg EXCEPT ![m] = "error"]
    /\ HandleTileError(tileOf[m], m)
    /\ UNCHANGED <<workerRoundRobin, nRenders, tileOf, workerOf>>
    /\ UNCHANGED tileCompVars
    /\ UNCHANGED loadVars

\* ------------------------------------------------------ specification
Load == LoadDocument /\ UNCHANGED poolTileVars /\ UNCHANGED tileCompVars
Loaded == \E p \in LoadCalls :
              DocumentLoaded(p) /\ UNCHANGED poolTileVars /\ UNCHANGED tileCompVars
LoadError == \E p \in LoadCalls :
              DocumentError(p) /\ UNCHANGED poolTileVars /\ UNCHANGED tileCompVars

\* The pool and its tile components against workers of which nothing is
\* assumed: every request is answered with either answer, at any time or never.
Next ==
    \/ Load /\ UNCHANGED <<workerVars, layerVars, pureVars>>
    \/ Loaded /\ UNCHANGED <<workerVars, layerVars, pureVars>>
    \/ LoadError /\ UNCHANGED <<workerVars, layerVars, pureVars>>
    \/ \E t \in TileIds : Mount(t) /\ UNCHANGED <<workerVars, layerVars, pureVars>>
    \/ \E c \in Calls : Unmount(c) /\ UNCHANGED <<workerVars, layerVars, pureVars>>
    \/ \E c \in Calls : Commit(c) /\ UNCHANGED <<workerVars, layerVars, pureVars>>
    \/ \E m \in Calls : TileReady(m) /\ UNCHANGED <<workerVars, layerVars, pureVars>>
    \/ \E m \in Calls : TileError(m) /\ UNCHANGED <<workerVars, layerVars, pureVars>>

Spec == Init /\ [][Next]_vars

\* ------------------------------------------------ pdf.worker.ts (v3.1)
\* The worker script the pool starts (new URL('../workers/pdf.worker.ts')).
\* onmessage is an async function: the handlers of one worker start in the
\* order of their messages and run up to their first await; what follows an
\* await of one handler interleaves with the other handlers of that worker.
Urls == {"", "a.pdf"}

LoadDocumentMsg(p) == [type |-> "LOAD_DOCUMENT", call |-> p]
RenderTileMsg(c)   == [type |-> "RENDER_TILE", call |-> c]

\* worker.postMessage(msg) to worker w
PostMessage(box, w, msg) == [box EXCEPT ![w] = Append(@, msg)]

\* pool.loadDocument(u): the pool's part, and the broadcast as the workers get it
PoolLoadDocument(u) ==
    /\ LoadDocument
    /\ url' = [url EXCEPT ![nLoads + 1] = u]
    /\ inbox' = [w \in Workers |-> Append(inbox[w], LoadDocumentMsg(nLoads + 1))]
    /\ UNCHANGED <<pdfDoc, handling, returned>>
    /\ UNCHANGED poolTileVars
    /\ UNCHANGED tileCompVars
    /\ UNCHANGED <<layerVars, pureVars>>

\* a PDFTile is mounted; its RENDER_TILE goes to the worker renderTile picked
PoolMount(t) ==
    /\ Mount(t)
    /\ inbox' = PostMessage(inbox, workerRoundRobin, RenderTileMsg(nRenders + 1))
    /\ UNCHANGED <<url, pdfDoc, handling, returned>>
    /\ UNCHANGED <<layerVars, pureVars>>

\* handleLoadDocument(data) up to its first await that leaves the worker:
\* no answer for an empty url; otherwise cleanupDocument() drops the document
\* held and the fetch begins
HandleLoadDocument(w, msg) ==
    IF url[msg.call] = ""
    THEN /\ returned' = returned \cup {<<w, msg>>}
         /\ UNCHANGED <<pdfDoc, handling>>
    ELSE /\ pdfDoc' = [pdfDoc EXCEPT ![w] = Null]
         /\ handling' = [handling EXCEPT ![w] = @ \cup {msg}]
         /\ UNCHANGED returned

\* handleRenderTile(job) up to its first await: no answer when pdfDoc is null
HandleRenderTile(w, msg) ==
    IF pdfDoc[w] = Null
    THEN /\ returned' = returned \cup {<<w, msg>>}
         /\ UNCHANGED <<pdfDoc, handling>>
    ELSE /\ handling' = [handling EXCEPT ![w] = @ \cup {msg}]
         /\ UNCHANGED <<pdfDoc, returned>>

\* self.onmessage of worker w for the oldest message posted to it
OnMessage(w) ==
    /\ inbox[w] # << >>
    /\ inbox' = [inbox EXCEPT ![w] = Tail(@)]
    /\ LET msg == Head(inbox[w])
       IN IF msg.type = "LOAD_DOCUMENT"
          THEN HandleLoadDocument(w, msg)
          ELSE HandleRenderTile(w, msg)
    /\ UNCHANGED url
    /\ UNCHANGED <<loadVars, poolTileVars, tileCompVars, layerVars, pureVars>>

\* handleLoadDocument of worker w completes: pdfDoc is set and DOCUMENT_LOADED
\* is posted; the pool handles it
WorkerDocumentLoaded(w, p) ==
    /\ LoadDocumentMsg(p) \in handling[w]
    /\ handling' = [handling EXCEPT ![w] = @ \ {LoadDocumentMsg(p)}]
    /\ pdfDoc' = [pdfDoc EXCEPT ![w] = p]
    /\ DocumentLoaded(p)
    /\ UNCHANGED <<url, inbox, returned>>
    /\ UNCHANGED <<poolTileVars, tileCompVars, layerVars, pureVars>>

\* handleLoadDocument of worker w throws (the fetch fails, or getPage(1) does
\* after pdfDoc was assigned): DOCUMENT_ERROR is posted; the pool handles it
WorkerDocumentError(w, p) ==
    /\ LoadDocumentMsg(p) \in handling[w]
    /\ handling' = [handling EXCEPT ![w] = @ \ {LoadDocumentMsg(p)}]
    /\ \E d \in {pdfDoc[w], p} : pdfDoc' = [pdfDoc EXCEPT ![w] = d]
    /\ DocumentError(p)
    /\ UNCHANGED <<url, inbox, returned>>
    /\ UNCHANGED <<poolTileVars, tileCompVars, layerVars, pureVars>>

\* handleRenderTile of worker w completes: TILE_READY {id, bitmap} is posted
WorkerTileReady(w, c) ==
    /\ RenderTileMsg(c) \in handling[w]
    /\ handling' = [handling EXCEPT ![w] = @ \ {RenderTileMsg(c)}]
    /\ TileReady(c)
    /\ UNCHANGED <<url, pdfDoc, inbox, returned>>
    /\ UNCHANGED <<layerVars, pureVars>>

\* handleRenderTile of worker w throws (the page is gone, the document was
\* destroyed by a later load): TILE_ERROR {id, error} is posted
WorkerTileError(w, c) ==
    /\ RenderTileMsg(c) \in handling[w]
    /\ handling' = [handling EXCEPT ![w] = @ \ {RenderTileMsg(c)}]
    /\ TileError(c)
    /\ UNCHANGED <<url, pdfDoc, inbox, returned>>
    /\ UNCHANGED <<layerVars, pureVars>>

\* The pool and its tile components with the workers it starts.
WorkerNext ==
    \/ \E u \in Urls : PoolLoadDocument(u)
    \/ \E t \in TileIds : PoolMount(t)
    \/ \E c \in Calls : Unmount(c) /\ UNCHANGED <<workerVars, layerVars, pureVars>>
    \/ \E c \in Calls : Commit(c) /\ UNCHANGED <<workerVars, layerVars, pureVars>>
    \/ \E w \in Workers : OnMessage(w)
    \/ \E w \in Workers, p \in LoadCalls : WorkerDocumentLoaded(w, p)
    \/ \E w \in Workers, p \in LoadCalls : WorkerDocumentError(w, p)
    \/ \E w \in Workers, c \in Calls : WorkerTileReady(w, c)
    \/ \E w \in Workers, c \in Calls : WorkerTileError(w, c)

WorkerSpec == Init /\ [][WorkerNext]_vars


\* ------------------------------------------- TileManager (geometry engine)
\* The props the tile layer is used with.  Lengths are integers and the
\* transforms are such that every division of getVisibleTiles is exact.
TileSize == 4                                \* tileSize, pixels of LOD space
Buffer == 1                                  \* buffer, rings of tiles
LodLevels == <<1, 2>>                        \* lodLevels, ascending
ContentSize == [width |-> 4, height |-> 2]   \* contentSize, world space
ViewportSize == [width |-> 4, height |-> 2]  \* viewportSize, screen pixels
Scales == {1, 2}
WorldXs == {0, 6, 8}                         \* world x of the viewport's left edge

\* viewportTransform values: CSS translation and scale
Transforms == {[x |-> 0 - (wx * sc), y |-> 0, scale |-> sc] : wx \in WorldXs, sc \in Scales}

Floor(a, b) == a \div b
Ceil(a, b) == 0 - ((0 - a) \div b)

\* step 1 of getVisibleTiles: the smallest level >= scale, else the highest
RECURSIVE LodFrom(_, _)
LodFrom(i, scale) ==
    IF i > Len(LodLevels) THEN LodLevels[Len(LodLevels)]
    ELSE IF LodLevels[i] >= scale THEN LodLevels[i]
    ELSE LodFrom(i + 1, scale)

SelectLod(scale) == LodFrom(1, scale)

LodIndex(lod) == CHOOSE i \in 1 .. Len(LodLevels) : LodLevels[i] = lod
GridCols == Ceil(ContentSize.width * LodLevels[Len(LodLevels)], TileSize)
GridRows == Ceil(ContentSize.height * LodLevels[Len(LodLevels)], TileSize)

\* `page_${pageIndex}_lod_${lod}_r_${row}_c_${col}` for page 0, as a number
TileId(lod, row, col) ==
    (LodIndex(lod) - 1) * GridRows * GridCols + row * GridCols + col + 1

\* the Tile object of step 5, with the isReady flag the cache adds to it
CachedTile(lod, row, col, ready) ==
    [id |-> TileId(lod, row, col), row |-> row, col |-> col, lod |-> lod,
     x |-> col * (TileSize \div lod), y |-> row * (TileSize \div lod),
     width |-> TileSize \div lod, height |-> TileSize \div lod,
     isReady |-> ready]

\* the visible rectangle in world space (step 2 of getVisibleTiles)
VisibleWorld(viewport, transform) ==
    [x |-> (0 - transform.x) \div transform.scale,
     y |-> (0 - transform.y) \div transform.scale,
     width |-> viewport.width \div transform.scale,
     height |-> viewport.height \div transform.scale]

\* getVisibleTiles(viewport, transform, contentSize), row by row
GetVisibleTiles(viewport, transform, contentSize) ==
    LET lod      == SelectLod(transform.scale)
        vw       == VisibleWorld(viewport, transform)
        lodX     == vw.x * lod
        lodY     == vw.y * lod
        lodW     == vw.width * lod
        lodH     == vw.height * lod
        startCol == Floor(lodX, TileSize) - Buffer
        endCol   == Ceil(lodX + lodW, TileSize) + Buffer
        startRow == Floor(lodY, TileSize) - Buffer
        endRow   == Ceil(lodY + lodH, TileSize) + Buffer
        maxCols  == Ceil(contentSize.width * lod, TileSize)
        maxRows  == Ceil(contentSize.height * lod, TileSize)
        nCols    == IF endCol > startCol THEN endCol - startCol ELSE 0
        nRows    == IF endRow > startRow THEN endRow - startRow ELSE 0
        grid     == [i \in 1 .. (nRows * nCols) |->
                        CachedTile(lod, startRow + ((i - 1) \div nCols),
                                   startCol + ((i - 1) % nCols), FALSE)]
        Inside(t) == ~(t.col < 0 \/ t.col >= maxCols \/ t.row < 0 \/ t.row >= maxRows)
    IN SelectSeq(grid, Inside)

\* ------------------------------------------------------------ TileLayer
IdsOf(tiles) == {tiles[i].id : i \in 1 .. Len(tiles)}
Has(cache, id) == id \in IdsOf(cache)
Get(cache, id) == cache[CHOOSE i \in 1 .. Len(cache) : cache[i].id = id]

\* the first useMemo: the visible tiles and the LOD taken from the first one
VisibleTiles(transform) == GetVisibleTiles(ViewportSize, transform, ContentSize)
CurrentLod(visibleTiles) == IF Len(visibleTiles) > 0 THEN visibleTiles[1].lod ELSE 1

\* variant of AddVisible: the missing tiles enter the cache as ready
AddVisibleAsReady(cache, visibleTiles) ==
    LET Missing(t) == ~Has(cache, t.id)
        missing    == SelectSeq(visibleTiles, Missing)
    IN cache \o [i \in 1 .. Len(missing) |-> [missing[i] EXCEPT !.isReady = TRUE]]

\* step 1: cache.set(tile.id, {...tile, isReady: false}) for the missing tiles
AddVisible(cache, visibleTiles) ==
    LET Missing(t) == ~Has(cache, t.id)
    IN cache \o SelectSeq(visibleTiles, Missing)

\* step 2: the overlap test of a cached tile against the visible area grown
\* by the buffer zone
Overlaps(cachedTile, transform) ==
    LET vw         == VisibleWorld(ViewportSize, transform)
        bufferZone == cachedTile.width * Buffer
        expandedX  == vw.x - bufferZone
        expandedY  == vw.y - bufferZone
        expandedW  == vw.width + bufferZone * 2
        expandedH  == vw.height + bufferZone * 2
    IN ~(\/ cachedTile.x + cachedTile.width < expandedX
         \/ cachedTile.x > expandedX + expandedW
         \/ cachedTile.y + cachedTile.height < expandedY
         \/ cachedTile.y > expandedY + expandedH)

\* variant of Placeholders: the LOD comparison the other way round
PlaceholdersHigherLod(cache, visibleTiles, transform) ==
    LET Qualifies(ct) ==
            /\ ct.id \notin IdsOf(visibleTiles)
            /\ ~(ct.lod <= CurrentLod(visibleTiles))
            /\ Overlaps(ct, transform)
            /\ ct.isReady
    IN SelectSeq(cache, Qualifies)

\* step 2: the cached tiles kept as placeholders, in the cache's order
Placeholders(cache, visibleTiles, transform) ==
    LET Qualifies(ct) ==
            /\ ct.id \notin IdsOf(visibleTiles)
            /\ ~(ct.lod >= CurrentLod(visibleTiles))
            /\ Overlaps(ct, transform)
            /\ ct.isReady
    IN SelectSeq(cache, Qualifies)

\* variant of Prune: the test of the delete the other way round
PruneInverted(cache, tilesToKeep) ==
    LET Dropped(ct) == ct.id \notin tilesToKeep
    IN SelectSeq(cache, Dropped)

\* step 3: the cache without the entries that are not kept
Prune(cache, tilesToKeep) ==
    LET Kept(ct) == ct.id \in tilesToKeep
    IN SelectSeq(cache, Kept)

\* variant of SortByLod: high LOD first
RECURSIVE SortByLodDescending(_)
SortByLodDescending(tiles) ==
    IF tiles = << >> THEN << >>
    ELSE LET rest == SortByLodDescending(Tail(tiles))
             t    == Head(tiles)
             After(u) == u.lod >= t.lod
             Before(u) == u.lod < t.lod
         IN SelectSeq(rest, After) \o <<t>> \o SelectSeq(rest, Before)

\* combined.sort((a, b) => a.lod - b.lod): a stable sort, low LOD first
RECURSIVE SortByLod(_)
SortByLod(tiles) ==
    IF tiles = << >> THEN << >>
    ELSE LET rest == SortByLod(Tail(tiles))
             t    == Head(tiles)
             Lower(u) == u.lod < t.lod
             NotLower(u) == u.lod >= t.lod
         IN SelectSeq(rest, Lower) \o <<t>> \o SelectSeq(rest, NotLower)

\* the second useMemo (tilesToRender): the cache it leaves and the list it
\* returns; the list holds the cache's own entries, here by id
TilesToRender(cache, transform) ==
    LET visibleTiles == VisibleTiles(transform)
        cache1       == AddVisible(cache, visibleTiles)
        result       == [i \in 1 .. Len(visibleTiles) |-> Get(cache1, visibleTiles[i].id)]
        placeholders == Placeholders(cache1, visibleTiles, transform)
        tilesToKeep  == IdsOf(visibleTiles) \cup IdsOf(placeholders)
        combined     == SortByLod(placeholders \o result)
    IN [cache |-> Prune(cache1, tilesToKeep),
        list  |-> [i \in 1 .. Len(combined) |-> combined[i].id]]

\* handleTileReady(id)
MarkReady(cache, id) ==
    [i \in 1 .. Len(cache) |->
        IF cache[i].id = id THEN [cache[i] EXCEPT !.isReady = TRUE] ELSE cache[i]]

\* the PDFTile children of the last render and the effects it left to run
ListIds == {tilesToRender[i] : i \in 1 .. Len(tilesToRender)}
Mounted == {c \in Calls : isMounted[c]}
PendingUnmounts == {c \in Mounted : tileOf[c] \notin ListIds}
PendingMounts == {i \in 1 .. Len(tilesToRender) :
                     \A c \in Mounted : tileOf[c] # tilesToRender[i]}
EffectsFlushed == PendingUnmounts = {} /\ PendingMounts = {}

\* TileLayer renders with the transform v (a new object each time, so the
\* pass runs even when v has the values of the last one)
Render(v) ==
    /\ EffectsFlushed
    /\ LET r == TilesToRender(tileCache, v)
       IN /\ nRenders + Cardinality({i \in 1 .. Len(r.list) :
                                       \A c \in Mounted : tileOf[c] # r.list[i]}) <= MaxRenders
          /\ viewportTransform' = v
          /\ tileCache' = r.cache
          /\ tilesToRender' = r.list
          /\ passParity' = 1 - passParity
    /\ UNCHANGED <<loadVars, poolTileVars, tileCompVars, workerVars, pureVars>>

\* the effect cleanups of a child that left the list; React runs the
\* cleanups of a commit before its effects and both before the next render
LayerUnmount(c) ==
    /\ c \in PendingUnmounts
    /\ \A d \in PendingUnmounts : c <= d
    /\ Unmount(c)
    /\ UNCHANGED <<workerVars, layerVars, pureVars>>

\* the fetch effect of the first child of the list that is new
LayerMount(i) ==
    /\ PendingUnmounts = {}
    /\ i \in PendingMounts
    /\ \A j \in PendingMounts : i <= j
    /\ RenderTile(nRenders + 1, tilesToRender[i])
    /\ isMounted' = [isMounted EXCEPT ![nRenders + 1] = TRUE]
    /\ UNCHANGED <<bitmap, pendingBitmap, isReady, closed>>
    /\ UNCHANGED <<loadVars, workerVars, layerVars, pureVars>>

\* a child commits its bitmap; onReady reaches handleTileReady of the layer
LayerCommit(c) ==
    /\ EffectsFlushed
    /\ Commit(c)
    /\ tileCache' = MarkReady(tileCache, tileOf[c])
    /\ UNCHANGED <<viewportTransform, tilesToRender, passParity>>
    /\ UNCHANGED <<workerVars, pureVars>>

LayerTileReady(m) ==
    /\ EffectsFlushed
    /\ TileReady(m)
    /\ UNCHANGED <<workerVars, layerVars, pureVars>>

LayerTileError(m) ==
    /\ EffectsFlushed
    /\ TileError(m)
    /\ UNCHANGED <<workerVars, layerVars, pureVars>>

\* The tile layer with its children, the pool and workers that answer in any
\* order, or never.
LayerNext ==
    \/ \E v \in Transforms : Render(v)
    \/ \E c \in Calls : LayerUnmount(c)
    \/ \E i \in 1 .. MaxRenders : LayerMount(i)
    \/ \E c \in Calls : LayerCommit(c)
    \/ \E m \in Calls : LayerTileReady(m)
    \/ \E m \in Calls : LayerTileError(m)

LayerSpec == Init /\ [][LayerNext]_vars

\* The same, where the layer is rendered again and again and nothing that
\* can run is put off for ever: effects are flushed, state updates are
\* committed, and the workers answer.
FairLayerSpec ==
    /\ LayerSpec
    /\ []<>(passParity = 0) /\ []<>(passParity = 1)
    /\ WF_vars(\E c \in Calls : LayerUnmount(c))
    /\ WF_vars(\E i \in 1 .. MaxRenders : LayerMount(i))
    /\ WF_vars(\E c \in Calls : LayerCommit(c))
    /\ WF_vars(\E m \in Calls : LayerTileReady(m) \/ LayerTileError(m))


\* ------------------------------------------------ numbers of the geometry
\* A JavaScript number is modelled by the rational it stands for, as a
\* fraction in lowest terms with a positive denominator.
RECURSIVE Gcd(_, _)
Gcd(a, b) == IF b = 0 THEN a ELSE Gcd(b, a % b)

Abs(a) == IF a < 0 THEN 0 - a ELSE a

Q(n, d) ==
    LET g == Gcd(Abs(n), Abs(d))
        s == IF d < 0 THEN 0 - 1 ELSE 1
    IN [n |-> (s * n) \div g, d |-> (s * d) \div g]

QInt(i) == [n |-> i, d |-> 1]
QNeg(a) == [n |-> 0 - a.n, d |-> a.d]
QAdd(a, b) == Q(a.n * b.d + b.n * a.d, a.d * b.d)
QSub(a, b) == QAdd(a, QNeg(b))
QMul(a, b) == Q(a.n * b.n, a.d * b.d)
QDiv(a, b) == Q(a.n * b.d, a.d * b.n)        \* b is not zero
QLess(a, b) == a.n * b.d < b.n * a.d
QLeq(a, b) == a.n * b.d <= b.n * a.d
QFloor(a) == Floor(a.n, a.d)                 \* Math.floor
QCeil(a) == Ceil(a.n, a.d)                   \* Math.ceil

\* String(number), one character per element: the integers and the halves
Digit(i) == <<"0", "1", "2", "3", "4", "5", "6", "7", "8", "9">>[i + 1]

RECURSIVE NatToString(_)
NatToString(i) ==
    IF i < 10 THEN <<Digit(i)>> ELSE NatToString(i \div 10) \o <<Digit(i % 10)>>

NumberToString(a) ==
    LET sign == IF a.n < 0 THEN <<"-">> ELSE << >>
        whole == Abs(a.n) \div a.d
    IN IF a.d = 1 THEN sign \o NatToString(whole)
       ELSE sign \o NatToString(whole) \o <<".", "5">>

\* ----------------------------------- TileManager, for any configuration
\* variant of SortLevels: the array is left in the order it was given
RECURSIVE SortLevelsNot(_)
SortLevelsNot(levels) ==
    IF levels = << >> THEN << >>
    ELSE <<Head(levels)>> \o SortLevelsNot(Tail(levels))

\* lodLevels.sort((a, b) => a - b)
RECURSIVE SortLevels(_)
SortLevels(levels) ==
    IF levels = << >> THEN << >>
    ELSE LET rest == SortLevels(Tail(levels))
             l    == Head(levels)
             Lower(u) == QLess(u, l)
             NotLower(u) == ~QLess(u, l)
         IN SelectSeq(rest, Lower) \o <<l>> \o SelectSeq(rest, NotLower)

\* new TileManager(config)
NewTileManager(config) ==
    [tileSize |-> config.tileSize, buffer |-> config.buffer,
     lodLevels |-> SortLevels(config.lodLevels)]

\* the loop of getLodForScale and of step 1: the first level >= scale from
\* index i on, `none` when the loop ends without one
RECURSIVE FirstLevelFrom(_, _, _, _)
FirstLevelFrom(levels, i, scale, none) ==
    IF i > Len(levels) THEN none
    ELSE IF QLeq(scale, levels[i]) THEN levels[i]
    ELSE FirstLevelFrom(levels, i + 1, scale, none)

\* variant of GetLodForScale: the first level when no level is >= scale
GetLodForScaleWraps(config, scale) ==
    FirstLevelFrom(config.lodLevels, 1, scale, config.lodLevels[1])

\* getLodForScale(scale)
GetLodForScale(config, scale) ==
    FirstLevelFrom(config.lodLevels, 1, scale, config.lodLevels[Len(config.lodLevels)])

\* step 1 of getVisibleTiles
LodOfStep1(config, scale) ==
    LET lodLevels == config.lodLevels
        highest   == lodLevels[Len(lodLevels)]
        lod       == FirstLevelFrom(lodLevels, 1, scale, highest)
    IN IF QLess(highest, scale) THEN highest ELSE lod

\* variant of TileIdString: the LOD is left out of the id
TileIdStringNoLod(pageIndex, lod, row, col) ==
    <<"p", "a", "g", "e", "_">> \o NumberToString(QInt(pageIndex))
        \o <<"_", "r", "_">> \o NumberToString(QInt(row))
        \o <<"_", "c", "_">> \o NumberToString(QInt(col))

\* `page_${pageIndex}_lod_${lod}_r_${row}_c_${col}`
TileIdString(pageIndex, lod, row, col) ==
    <<"p", "a", "g", "e", "_">> \o NumberToString(QInt(pageIndex))
        \o <<"_", "l", "o", "d", "_">> \o NumberToString(lod)
        \o <<"_", "r", "_">> \o NumberToString(QInt(row))
        \o <<"_", "c", "_">> \o NumberToString(QInt(col))

\* variant of NewTile: the position is left in LOD space
NewTileLodSpace(config, pageIndex, lod, row, col) ==
    LET tileWorldSize == QDiv(QInt(config.tileSize), lod)
    IN [id |-> TileIdString(pageIndex, lod, row, col),
        row |-> row, col |-> col, lod |-> lod,
        x |-> QInt(col * config.tileSize), y |-> QInt(row * config.tileSize),
        width |-> tileWorldSize, height |-> tileWorldSize,
        pageIndex |-> pageIndex]

\* the object pushed in step 5
NewTile(config, pageIndex, lod, row, col) ==
    LET tileWorldSize == QDiv(QInt(config.tileSize), lod)
    IN [id |-> TileIdString(pageIndex, lod, row, col),
        row |-> row, col |-> col, lod |-> lod,
        x |-> QMul(QInt(col), tileWorldSize), y |-> QMul(QInt(row), tileWorldSize),
        width |-> tileWorldSize, height |-> tileWorldSize,
        pageIndex |-> pageIndex]

\* variant of OutsideGrid: the upper limits are compared with >
OutsideGridOffByOne(row, col, maxRows, maxCols) ==
    col < 0 \/ col > maxCols \/ row < 0 \/ row > maxRows

\* the culling test of step 5
OutsideGrid(row, col, maxRows, maxCols) ==
    col < 0 \/ col >= maxCols \/ row < 0 \/ row >= maxRows

\* getVisibleTiles(viewport, transform, contentSize, pageIndex) of a manager
\* with this.config = config; transform.scale is positive
TileManagerGetVisibleTiles(config, viewport, transform, contentSize, pageIndex) ==
    LET tileSize == QInt(config.tileSize)
        buffer   == config.buffer
        scale    == transform.scale
        lod      == LodOfStep1(config, scale)
        visibleWorldX == QDiv(QNeg(transform.x), scale)
        visibleWorldY == QDiv(QNeg(transform.y), scale)
        visibleWorldW == QDiv(viewport.width, scale)
        visibleWorldH == QDiv(viewport.height, scale)
        lodX     == QMul(visibleWorldX, lod)
        lodY     == QMul(visibleWorldY, lod)
        lodW     == QMul(visibleWorldW, lod)
        lodH     == QMul(visibleWorldH, lod)
        startCol == QFloor(QDiv(lodX, tileSize)) - buffer
        endCol   == QCeil(QDiv(QAdd(lodX, lodW), tileSize)) + buffer
        startRow == QFloor(QDiv(lodY, tileSize)) - buffer
        endRow   == QCeil(QDiv(QAdd(lodY, lodH), tileSize)) + buffer
        maxCols  == QCeil(QDiv(QMul(contentSize.width, lod), tileSize))
        maxRows  == QCeil(QDiv(QMul(contentSize.height, lod), tileSize))
        nCols    == IF endCol > startCol THEN endCol - startCol ELSE 0
        nRows    == IF endRow > startRow THEN endRow - startRow ELSE 0
        cells    == [i \in 1 .. (nRows * nCols) |->
                        [row |-> startRow + ((i - 1) \div nCols),
                         col |-> startCol + ((i - 1) % nCols)]]
        Inside(t) == ~OutsideGrid(t.row, t.col, maxRows, maxCols)
        kept     == SelectSeq(cells, Inside)
    IN [i \in 1 .. Len(kept) |-> NewTile(config, pageIndex, lod, kept[i].row, kept[i].col)]

\* --------------------------------------- the geometry engine, called
\* The configurations the managers are constructed with, and the arguments
\* of the calls.  Levels, scales and lengths are rationals.
Half == Q(1, 2)
LevelLists == {<<Half>>, <<QInt(1), QInt(2)>>, <<QInt(2), QInt(1)>>,
               <<QInt(2), Half, QInt(1)>>, <<QInt(1), QInt(4), Half>>}
GeomConfigs == {[tileSize |-> ts, buffer |-> b, lodLevels |-> ll] :
                   ts \in {2, 3}, b \in {0, 1}, ll \in LevelLists}
GeomScales == {Half, QInt(1), QInt(2), QInt(4)}
ViewportWidths == {0, 3, 4}
ViewportHeights == {0, 2}
ContentWidths == {0, 4, 7}
ContentHeights == {0, 3}
ArgsOf(pages) ==
    {[viewport |-> [width |-> QInt(vw), height |-> QInt(vh)],
      transform |-> [x |-> QInt(tx), y |-> QInt(ty), scale |-> sc],
      contentSize |-> [width |-> QInt(cw), height |-> QInt(ch)],
      pageIndex |-> pg] :
        vw \in ViewportWidths, vh \in ViewportHeights,
        tx \in {0 - 5, 0 - 2, 0, 3}, ty \in {0 - 1, 0}, sc \in GeomScales,
        cw \in ContentWidths, ch \in ContentHeights, pg \in pages}
GeomArgs == ArgsOf({0})

\* the smaller sets the pairs of calls are drawn from
PairConfigs == {c \in GeomConfigs : c.tileSize = 2 /\ c.buffer = 1 /\ c.lodLevels \in
                   {<<QInt(2), QInt(1)>>, <<QInt(2), Half, QInt(1)>>}}
PairArgs ==
    {a \in ArgsOf({0, 1}) :
        /\ a.viewport = [width |-> QInt(3), height |-> QInt(2)]
        /\ a.contentSize = [width |-> QInt(7), height |-> QInt(3)]
        /\ a.transform.y = QInt(0)
        /\ a.transform.x \in {QInt(0 - 2), QInt(0)}}

\* one manager, constructed with any configuration, and the arguments of a
\* call, any of GeomArgs
GeomInit ==
    /\ PoolInit /\ ZoomIdle
    /\ ScrollIdle /\ MoreIdle
    /\ \E c \in GeomConfigs :
          /\ configGiven = [m \in Managers |-> c]
          /\ manager = [m \in Managers |-> NewTileManager(c)]
    /\ geomOn = [k \in GeomCalls |-> 1]
    /\ \E a \in GeomArgs : geomArgs = [k \in GeomCalls |-> a]
    /\ geomDone = {}
    /\ geomTiles = [k \in GeomCalls |-> << >>]
    /\ geomLod = [k \in GeomCalls |-> NoNumber]

\* two managers and the arguments of two calls, each on either manager
PairInit ==
    /\ PoolInit /\ ZoomIdle
    /\ ScrollIdle /\ MoreIdle
    /\ configGiven \in [Managers -> PairConfigs]
    /\ manager = [m \in Managers |-> NewTileManager(configGiven[m])]
    /\ geomOn \in [GeomCalls -> Managers]
    /\ geomArgs \in [GeomCalls -> PairArgs]
    /\ geomDone = {}
    /\ geomTiles = [k \in GeomCalls |-> << >>]
    /\ geomLod = [k \in GeomCalls |-> NoNumber]

\* variant of CallGetVisibleTiles: the call leaves the manager's levels in
\* descending order
CallGetVisibleTilesReversing(k) ==
    /\ <<k, "tiles">> \notin geomDone
    /\ LET a == geomArgs[k]
           m == geomOn[k]
           Reverse(s) == [i \in 1 .. Len(s) |-> s[Len(s) + 1 - i]]
       IN /\ geomTiles' = [geomTiles EXCEPT ![k] =
                  TileManagerGetVisibleTiles(manager[m], a.viewport, a.transform,
                                             a.contentSize, a.pageIndex)]
          /\ manager' = [manager EXCEPT ![m].lodLevels = Reverse(@)]
    /\ geomDone' = geomDone \cup {<<k, "tiles">>}
    /\ UNCHANGED <<configGiven, geomOn, geomArgs, geomLod>>
    /\ UNCHANGED <<loadVars, poolTileVars, tileCompVars, workerVars, layerVars, zoomVars, scrollVars, moreVars>>

\* call k: manager.getVisibleTiles(viewport, transform, contentSize, pageIndex)
CallGetVisibleTiles(k) ==
    /\ <<k, "tiles">> \notin geomDone
    /\ LET a == geomArgs[k]
       IN geomTiles' = [geomTiles EXCEPT ![k] =
              TileManagerGetVisibleTiles(manager[geomOn[k]], a.viewport, a.transform,
                                         a.contentSize, a.pageIndex)]
    /\ geomDone' = geomDone \cup {<<k, "tiles">>}
    /\ UNCHANGED <<configGiven, manager, geomOn, geomArgs, geomLod>>
    /\ UNCHANGED <<loadVars, poolTileVars, tileCompVars, workerVars, layerVars, zoomVars, scrollVars, moreVars>>

\* call k: manager.getLodForScale(transform.scale)
CallGetLodForScale(k) ==
    /\ <<k, "lod">> \notin geomDone
    /\ geomLod' = [geomLod EXCEPT ![k] =
           GetLodForScale(manager[geomOn[k]], geomArgs[k].transform.scale)]
    /\ geomDone' = geomDone \cup {<<k, "lod">>}
    /\ UNCHANGED <<configGiven, manager, geomOn, geomArgs, geomTiles>>
    /\ UNCHANGED <<loadVars, poolTileVars, tileCompVars, workerVars, layerVars, zoomVars, scrollVars, moreVars>>

GeomNext ==
    \/ CallGetVisibleTiles(1)
    \/ CallGetLodForScale(1)

\* one call of each method, over all configurations and arguments
GeomSpec == GeomInit /\ [][GeomNext]_vars

PairNext ==
    \/ \E k \in GeomCalls : CallGetVisibleTiles(k)
    \/ \E k \in GeomCalls : CallGetLodForScale(k)

\* two calls of each method, on the same manager or on two
PairSpec == PairInit /\ [][PairNext]_vars

\* ------------------------------------------------ useViewportTransform
\* The hook with its default options; the pivots, factors and offsets the
\* calls are made with.
MinScale == Q(1, 10)
MaxScale == QInt(10)
Pivots == {[x |-> QInt(0), y |-> QInt(0)], [x |-> QInt(250), y |-> QInt(250)],
           [x |-> QInt(100), y |-> QInt(30)]}
ZoomFactors == {Q(1, 100), Half, QInt(1), Q(3, 2), QInt(2), QInt(20)}
PanDeltas == {[x |-> QInt(10), y |-> QInt(0 - 5)]}
SetTransforms == {[x |-> QInt(0 - 3), y |-> QInt(7), scale |-> Half]}

QMin(a, b) == IF QLess(b, a) THEN b ELSE a
QMax(a, b) == IF QLess(a, b) THEN b ELSE a

\* variant of ZoomedTransform: the translation is computed for the scale
\* before clamping
ZoomedTransformUnclamped(t, pivotX, pivotY, zoomFactor) ==
    LET s        == t.scale
        wanted   == QMul(s, zoomFactor)
        newScale == QMin(QMax(wanted, MinScale), MaxScale)
        worldX   == QDiv(QSub(pivotX, t.x), s)
        worldY   == QDiv(QSub(pivotY, t.y), s)
    IN IF QDiv(newScale, s) = QInt(1) THEN t
       ELSE [x |-> QSub(pivotX, QMul(worldX, wanted)),
             y |-> QSub(pivotY, QMul(worldY, wanted)),
             scale |-> newScale]

\* transform.current after zoomToPoint(pivotX, pivotY, zoomFactor) when it
\* was t before
ZoomedTransform(t, pivotX, pivotY, zoomFactor) ==
    LET s               == t.scale
        newScale        == QMin(QMax(QMul(s, zoomFactor), MinScale), MaxScale)
        effectiveFactor == QDiv(newScale, s)
        worldX          == QDiv(QSub(pivotX, t.x), s)
        worldY          == QDiv(QSub(pivotY, t.y), s)
        newTx           == QSub(pivotX, QMul(worldX, newScale))
        newTy           == QSub(pivotY, QMul(worldY, newScale))
    IN IF effectiveFactor = QInt(1) THEN t
       ELSE [x |-> newTx, y |-> newTy, scale |-> newScale]

\* what a zoom action leaves alone besides the hook
ZoomRest == <<loadVars, poolTileVars, tileCompVars, workerVars, layerVars, geomVars, scrollVars, moreVars>>

\* scheduleUpdate(): one requestAnimationFrame(applyTransform) unless
\* rafId.current is set
ScheduleUpdate ==
    /\ IF rafId # Null
       THEN UNCHANGED <<rafId, framesPending>>
       ELSE rafId' = 1 /\ framesPending' = framesPending + 1
    /\ UNCHANGED <<viewportMounted, styleTransform, gridState, lastUpdateRef, now>>

\* handleTransformUpdate(state) of ViewportPOC, the onUpdate callback
HandleTransformUpdate(state) ==
    IF now - lastUpdateRef > ThrottleMs
    THEN gridState' = state /\ lastUpdateRef' = now
    ELSE UNCHANGED <<gridState, lastUpdateRef>>

\* the browser runs the frame callback, applyTransform, d ms after the last
\* event; styleTransform holds the numbers written into the
\* translate3d(...) scale(...) string
AnimationFrame(d) ==
    /\ framesPending > 0
    /\ now' = now + d
    /\ framesPending' = framesPending - 1
    /\ IF ~viewportMounted
       THEN UNCHANGED <<rafId, styleTransform, gridState, lastUpdateRef>>
       ELSE /\ styleTransform' = transformRef
            /\ HandleTransformUpdate(transformRef)
            /\ rafId' = Null
    /\ UNCHANGED <<transformRef, nZoomOps, zoomRun, viewportMounted>>
    /\ UNCHANGED ZoomRest

\* React commits the element and sets viewportRef.current
MountViewport ==
    /\ ~viewportMounted
    /\ viewportMounted' = TRUE
    /\ UNCHANGED <<transformRef, nZoomOps, zoomRun, rafId, framesPending, styleTransform,
                   gridState, lastUpdateRef, now>>
    /\ UNCHANGED ZoomRest

\* milliseconds from one event to a frame: a frame of a 60 Hz display, and
\* a late one
FrameMs == 16
Delays == {FrameMs, ThrottleMs + 10}

\* zoomToPoint(pivotX, pivotY, zoomFactor); zoomRun records the pivot of the
\* calls made in a row and the world point that was under it before the
\* first of them
ZoomToPoint(pivot, zoomFactor) ==
    /\ nZoomOps < MaxZoomOps
    /\ nZoomOps' = nZoomOps + 1
    /\ transformRef' = ZoomedTransform(transformRef, pivot.x, pivot.y, zoomFactor)
    /\ zoomRun' =
          IF zoomRun.calls > 0 /\ zoomRun.pivot = pivot
          THEN [zoomRun EXCEPT !.calls = @ + 1,
                               !.clamped = @ \/ QLess(MaxScale, QMul(transformRef.scale, zoomFactor))
                                             \/ QLess(QMul(transformRef.scale, zoomFactor), MinScale)]
          ELSE [calls |-> 1, pivot |-> pivot,
                world |-> [x |-> QDiv(QSub(pivot.x, transformRef.x), transformRef.scale),
                           y |-> QDiv(QSub(pivot.y, transformRef.y), transformRef.scale)],
                clamped |-> \/ QLess(MaxScale, QMul(transformRef.scale, zoomFactor))
                            \/ QLess(QMul(transformRef.scale, zoomFactor), MinScale)]
    /\ IF ZoomedTransform(transformRef, pivot.x, pivot.y, zoomFactor).scale = transformRef.scale
       THEN UNCHANGED hookVars
       ELSE ScheduleUpdate
    /\ UNCHANGED <<loadVars, poolTileVars, tileCompVars, workerVars, layerVars, geomVars, scrollVars, moreVars>>

\* pan(deltaX, deltaY)
Pan(delta) ==
    /\ nZoomOps < MaxZoomOps
    /\ nZoomOps' = nZoomOps + 1
    /\ transformRef' = [transformRef EXCEPT !.x = QAdd(@, delta.x), !.y = QAdd(@, delta.y)]
    /\ zoomRun' = NoZoomRun
    /\ ScheduleUpdate
    /\ UNCHANGED <<loadVars, poolTileVars, tileCompVars, workerVars, layerVars, geomVars, scrollVars, moreVars>>

\* setTransform(x, y, scale)
SetTransform(t) ==
    /\ nZoomOps < MaxZoomOps
    /\ nZoomOps' = nZoomOps + 1
    /\ transformRef' = t
    /\ zoomRun' = NoZoomRun
    /\ ScheduleUpdate
    /\ UNCHANGED <<loadVars, poolTileVars, tileCompVars, workerVars, layerVars, geomVars, scrollVars, moreVars>>

ZoomNext ==
    \/ \E pivot \in Pivots, zoomFactor \in ZoomFactors : ZoomToPoint(pivot, zoomFactor)
    \/ \E delta \in PanDeltas : Pan(delta)
    \/ \E t \in SetTransforms : SetTransform(t)
    \/ MountViewport
    \/ AnimationFrame(FrameMs)

ZoomSpec == Init /\ [][ZoomNext]_vars

\* The hook in ViewportPOC, with frames that come late.
TimedZoomNext ==
    \/ ZoomNext
    \/ \E d \in Delays : AnimationFrame(d)

TimedZoomSpec == Init /\ [][TimedZoomNext]_vars

\* -------------------------------------------------- useZoom (App, PdfViewer)
\* The scroll container of PdfViewer and the content laid out in it.  The
\* container is at the origin of the screen, so a screen point is an offset
\* in the container.
ClientWidth    == QInt(500)
ClientHeight   == QInt(500)
ContainerWidth == ClientWidth       \* the content is as wide as the container at scale 1
HeightAtOne    == QInt(1000)        \* height of the content at scale 1
PaddingY       == QInt(16)          \* py-4
ZoomMinScale   == Q(1, 10)
ZoomMaxScale   == QInt(8)
Threshold      == Q(1, 1000)

QAbs(a) == IF QLess(a, QInt(0)) THEN QNeg(a) ELSE a
QClamp(v, lo, hi) == QMin(QMax(v, lo), hi)

\* layout committed for scale s
ContentWidth(s)  == QMul(ContainerWidth, s)
ContentHeight(s) == QMul(HeightAtOne, s)
MarginLeft(s) == QMax(QInt(0), QDiv(QSub(ClientWidth, ContentWidth(s)), QInt(2)))
ContentTop(s) == QMax(PaddingY, QDiv(QSub(ClientHeight, ContentHeight(s)), QInt(2)))
MaxScrollLeft(s) ==
    QMax(QInt(0), QSub(QAdd(MarginLeft(s), ContentWidth(s)), ClientWidth))
MaxScrollTop(s) ==
    QMax(QInt(0), QSub(QAdd(ContentHeight(s), QMul(QInt(2), PaddingY)), ClientHeight))

\* container.scrollTo({left, top}) while the layout for scale s is in place
ScrollTo(left, top, s) ==
    [left |-> QClamp(left, QInt(0), MaxScrollLeft(s)),
     top  |-> QClamp(top, QInt(0), MaxScrollTop(s))]

\* the point of the content, in units of the content at scale 1, shown at
\* offset off of the container
DocPoint(off, scroll, s) ==
    [x |-> QDiv(QSub(QAdd(scroll.left, off.x), MarginLeft(s)), s),
     y |-> QDiv(QSub(QAdd(scroll.top, off.y), ContentTop(s)), s)]

Center == [x |-> QDiv(ClientWidth, QInt(2)), y |-> QDiv(ClientHeight, QInt(2))]

\* the focal point adjustScrollForZoom uses
FocalOffset(mode, focalPoint) ==
    IF mode = "focal_point" THEN focalPoint ELSE Center

\* the scroll position adjustScrollForZoom(mode, oldScale, newScale,
\* focalPoint) leaves, called while the layout for scale s is in place
AdjustScrollForZoom(mode, oldScale, newScale, focalPoint, scroll, s) ==
    IF mode = "fit_to_screen" THEN ScrollTo(QInt(0), QInt(0), s)
    ELSE
    LET focalOffsetX == FocalOffset(mode, focalPoint).x
        focalOffsetY == FocalOffset(mode, focalPoint).y
        ratio == QDiv(newScale, oldScale)
        pointInContentX == QAdd(scroll.left, focalOffsetX)
        pointInContentY == QAdd(scroll.top, focalOffsetY)
        newPointInContentY == QMul(pointInContentY, ratio)
        newScrollTop == QSub(newPointInContentY, focalOffsetY)
        oldMarginLeft == MarginLeft(s)
        currentContentWidth == ContentWidth(s)
        newContentWidth == QMul(currentContentWidth, ratio)
        newMarginLeft == IF QLess(newContentWidth, ClientWidth)
                         THEN QDiv(QSub(ClientWidth, newContentWidth), QInt(2))
                         ELSE QInt(0)
        realDocX == QSub(pointInContentX, oldMarginLeft)
        newRealDocX == QMul(realDocX, ratio)
        correctedScrollLeft == QSub(QAdd(newMarginLeft, newRealDocX), focalOffsetX)
    IN ScrollTo(QMax(QInt(0), correctedScrollLeft), QMax(QInt(0), newScrollTop), s)

ClampScale(s) == QMin(QMax(ZoomMinScale, s), ZoomMaxScale)

\* the steps one call of adjustScrollForZoom followed by setScale makes
StepsOf(mode) ==
    (IF mode = "fit_to_screen" THEN <<"restore">> ELSE <<"capture", "restore">>)
        \o <<"apply">>

\* the content point under the focal point before the first of the scale
\* changes made in a row at one focal point
AnchorAt(mode, focalPoint) ==
    IF mode = "fit_to_screen" THEN NoAnchor
    ELSE IF anchor.live /\ anchor.off = FocalOffset(mode, focalPoint) THEN anchor
    ELSE [live |-> TRUE, off |-> FocalOffset(mode, focalPoint),
          doc |-> DocPoint(FocalOffset(mode, focalPoint), scrollPos, appScale)]

\* adjustScrollForZoom(mode, oldScale, newScale, focalPoint); setScale(newScale)
AdjustThenSetScale(mode, oldScale, newScale, focalPoint) ==
    /\ scrollPos' = AdjustScrollForZoom(mode, oldScale, newScale, focalPoint,
                                        scrollPos, appScale)
    /\ pendingScale' = IF newScale = appScale THEN NoNumber ELSE newScale
    /\ anchor' = AnchorAt(mode, focalPoint)
    /\ zoomSteps' = StepsOf(mode)

ScrollRest == <<loadVars, poolTileVars, tileCompVars, workerVars, layerVars, geomVars, zoomVars, moreVars>>

\* the inputs of the handlers
WheelDeltas   == {Q(1, 2), QNeg(Q(1, 4)), Q(1, 2000)}
ToolbarScales == {Half, QInt(2), QInt(9)}
PinchScales   == {Q(1, 4), Q(3, 2)}
Midpoints     == {[x |-> QInt(100), y |-> QInt(400)], Center}
FitScales     == {QInt(1)}
UserScrolls   == {[left |-> QInt(250), top |-> QInt(250)], [left |-> QInt(0), top |-> QInt(40)]}
Progresses    == {Half, QInt(1)}

Idle == pendingScale = NoNumber /\ scheduledFrame = NoFrame

\* handleWheelZoom(e), delta standing for
\* -e.deltaY * wheelSensitivity * speedFactor
HandleWheelZoom(delta) ==
    /\ nZoomEvents < MaxZoomEvents
    /\ pendingScale = NoNumber
    /\ nZoomEvents' = nZoomEvents + 1
    /\ LET oldScale == appScale
           newScale == ClampScale(QAdd(appScale, delta))
       IN scheduledFrame' =
             IF QLess(QAbs(QSub(newScale, oldScale)), Threshold) THEN scheduledFrame
             ELSE [kind |-> "wheel", oldScale |-> oldScale, newScale |-> newScale,
                   frame |-> 0]
    /\ UNCHANGED <<appScale, pendingScale, scrollPos, anchor, zoomSteps>>
    /\ UNCHANGED ScrollRest

\* handleToolbarZoom(newScaleTarget, animate)
HandleToolbarZoom(newScaleTarget, animate) ==
    /\ nZoomEvents < MaxZoomEvents
    /\ Idle
    /\ nZoomEvents' = nZoomEvents + 1
    /\ LET oldScale == appScale
           newScale == ClampScale(newScaleTarget)
       IN IF QLess(QAbs(QSub(newScale, oldScale)), Threshold)
          THEN UNCHANGED <<pendingScale, scrollPos, anchor, zoomSteps, scheduledFrame>>
          ELSE IF animate
          THEN /\ scheduledFrame' = [kind |-> "animate", oldScale |-> oldScale,
                                     newScale |-> newScale, frame |-> 0]
               /\ UNCHANGED <<pendingScale, scrollPos, anchor, zoomSteps>>
          ELSE /\ AdjustThenSetScale("center", oldScale, newScale, Center)
               /\ UNCHANGED scheduledFrame
    /\ UNCHANGED appScale
    /\ UNCHANGED ScrollRest

\* handlePinchZoom(newScaleRaw, midpoint)
HandlePinchZoom(newScaleRaw, midpoint) ==
    /\ nZoomEvents < MaxZoomEvents
    /\ Idle
    /\ nZoomEvents' = nZoomEvents + 1
    /\ LET oldScale == appScale
           newScale == ClampScale(newScaleRaw)
       IN IF QLess(QAbs(QSub(newScale, oldScale)), Threshold)
          THEN UNCHANGED <<pendingScale, scrollPos, anchor, zoomSteps>>
          ELSE AdjustThenSetScale("focal_point", oldScale, newScale, midpoint)
    /\ UNCHANGED <<appScale, scheduledFrame>>
    /\ UNCHANGED ScrollRest

\* handleFitToScreen(targetScale)
HandleFitToScreen(targetScale) ==
    /\ nZoomEvents < MaxZoomEvents
    /\ Idle
    /\ nZoomEvents' = nZoomEvents + 1
    /\ AdjustThenSetScale("fit_to_screen", appScale, ClampScale(targetScale), Center)
    /\ UNCHANGED <<appScale, scheduledFrame>>
    /\ UNCHANGED ScrollRest

\* the callback handleWheelZoom passed to requestAnimationFrame
WheelFrame ==
    /\ scheduledFrame # NoFrame
    /\ scheduledFrame.kind = "wheel"
    /\ pendingScale = NoNumber
    /\ AdjustThenSetScale("center", scheduledFrame.oldScale, scheduledFrame.newScale, Center)
    /\ scheduledFrame' = NoFrame
    /\ UNCHANGED <<appScale, nZoomEvents>>
    /\ UNCHANGED ScrollRest

\* animateStep(currentTime) of handleToolbarZoom, progress standing for
\* Math.min(elapsed / duration, 1); the second frame is the last one
AnimateStep(progress) ==
    /\ scheduledFrame # NoFrame
    /\ scheduledFrame.kind = "animate"
    /\ pendingScale = NoNumber
    /\ scheduledFrame.frame = MaxFrames - 1 => progress = QInt(1)
    /\ LET rest == QSub(QInt(1), progress)
           easeOut == QSub(QInt(1), QMul(rest, QMul(rest, rest)))
           currentScale == QAdd(scheduledFrame.oldScale,
                                QMul(QSub(scheduledFrame.newScale, scheduledFrame.oldScale),
                                     easeOut))
       IN AdjustThenSetScale("center", scheduledFrame.oldScale, currentScale, Center)
    /\ scheduledFrame' = IF QLess(progress, QInt(1))
                         THEN [scheduledFrame EXCEPT !.frame = @ + 1]
                         ELSE NoFrame
    /\ UNCHANGED <<appScale, nZoomEvents>>
    /\ UNCHANGED ScrollRest

\* React renders PdfViewer with the new scale and runs its layout effects:
\* zoomFocalPoint is null, so zoomStateRef is null and no effect scrolls;
\* the browser keeps the scroll position inside the new scroll range
RenderScale ==
    /\ pendingScale # NoNumber
    /\ appScale' = pendingScale
    /\ pendingScale' = NoNumber
    /\ scrollPos' = ScrollTo(scrollPos.left, scrollPos.top, pendingScale)
    /\ zoomSteps' = Append(zoomSteps, "commit")
    /\ UNCHANGED <<scheduledFrame, anchor, nZoomEvents>>
    /\ UNCHANGED ScrollRest

\* the user scrolls the container
UserScroll(to) ==
    /\ nZoomEvents < MaxZoomEvents
    /\ Idle
    /\ nZoomEvents' = nZoomEvents + 1
    /\ scrollPos' = ScrollTo(to.left, to.top, appScale)
    /\ anchor' = NoAnchor
    /\ UNCHANGED <<appScale, pendingScale, scheduledFrame, zoomSteps>>
    /\ UNCHANGED ScrollRest

ScrollNext ==
    \/ \E delta \in WheelDeltas : HandleWheelZoom(delta)
    \/ \E target \in ToolbarScales, animate \in BOOLEAN : HandleToolbarZoom(target, animate)
    \/ \E newScaleRaw \in PinchScales, midpoint \in Midpoints :
          HandlePinchZoom(newScaleRaw, midpoint)
    \/ \E targetScale \in FitScales : HandleFitToScreen(targetScale)
    \/ WheelFrame
    \/ \E progress \in Progresses : AnimateStep(progress)
    \/ RenderScale
    \/ \E to \in UserScrolls : UserScroll(to)

ScrollSpec == Init /\ [][ScrollNext]_vars


\* -------------------------------------------------------- ViewportPOC
\* The load effect of ViewportPOC and the TileLayer it shows once
\* isWorkersReady is set.

\* the load effect runs for the pdfUrl prop u: the cleanup of the effect of
\* the previous pdfUrl clears its isMounted; without a url nothing is loaded,
\* otherwise init() calls pool.loadDocument(pdfUrl) and awaits it
ChangeUrl(u) ==
    IF u = ""
    THEN /\ effectOf' = Null
         /\ UNCHANGED <<isWorkersReady, resumed>>
         /\ UNCHANGED <<loadVars, poolTileVars, tileCompVars, workerVars, layerVars>>
         /\ UNCHANGED <<geomVars, zoomVars, scrollVars, viewerVars, virtVars>>
    ELSE /\ LoadDocument
         /\ effectOf' = nLoads + 1
         /\ UNCHANGED <<isWorkersReady, resumed>>
         /\ UNCHANGED <<poolTileVars, tileCompVars, workerVars, layerVars>>
         /\ UNCHANGED <<geomVars, zoomVars, scrollVars, viewerVars, virtVars>>

\* init() of the effect of load p resumes after `await pool.loadDocument`:
\* setIsWorkersReady(true) when the promise resolved and the effect is still
\* the current one; the catch branch leaves isWorkersReady alone
LoadContinues(p) ==
    /\ loadPromise[p].state \in {"resolved", "rejected"}
    /\ p \notin resumed
    /\ resumed' = resumed \cup {p}
    /\ isWorkersReady' = IF loadPromise[p].state = "resolved" /\ effectOf = p
                         THEN TRUE ELSE isWorkersReady
    /\ UNCHANGED effectOf
    /\ UNCHANGED <<loadVars, poolTileVars, tileCompVars, workerVars, layerVars>>
    /\ UNCHANGED <<geomVars, zoomVars, scrollVars, viewerVars, virtVars>>

\* the gridState values the TileLayer is rendered with
GridStates == {[x |-> 0, y |-> 0, scale |-> 1], [x |-> 0 - 8, y |-> 0, scale |-> 1]}

\* {isWorkersReady && <TileLayer viewportTransform={gridState} .../>}
PocRender(v) == isWorkersReady /\ Render(v)

PocNext ==
    \/ \E u \in Urls : ChangeUrl(u)
    \/ Loaded /\ UNCHANGED <<workerVars, layerVars, pureVars>>
    \/ LoadError /\ UNCHANGED <<workerVars, layerVars, pureVars>>
    \/ \E p \in LoadCalls : LoadContinues(p)
    \/ \E v \in GridStates : PocRender(v)
    \/ \E c \in Calls : LayerUnmount(c)
    \/ \E i \in 1 .. MaxRenders : LayerMount(i)
    \/ \E c \in Calls : LayerCommit(c)
    \/ \E m \in Calls : LayerTileReady(m)
    \/ \E m \in Calls : LayerTileError(m)

PocSpec == Init /\ [][PocNext]_vars
\* ------------------------------------------------- App and PdfViewer
\* The zoom state of App.tsx (scale, renderedScale, zoomFocalPoint,
\* isFitToScreenAction, the debounce timer, the pinch refs) and the two layout
\* effects of PdfViewer that read it.  Scales are in thousandths.  An event
\* handler, the render it causes and the effects of that render are one step.

\* what an App action leaves alone
ViewerRest == <<loadVars, poolTileVars, tileCompVars, workerVars, layerVars,
                geomVars, zoomVars, scrollVars, pocVars, virtVars>>

\* Math.abs(scale - renderedScale) > 0.001
IsZooming(s, r) == Abs(s - r) > 1

\* the render with scale s, renderedScale r, zoomFocalPoint f (focalSet: f is
\* a new object), isFitToScreenAction fit and pageNumber p, and its effects in
\* the order they run: the transform-origin layout effect, the restore layout
\* effect, the debounce effect.  shift: the compensation of the origin reset
\* is more than a pixel.
CommitRender(s, r, f, focalSet, fit, p, shift) ==
    LET zooming == IsZooming(s, r)
        runOrigin == s # viewScale \/ r # renderedScale \/ focalSet
        capture == runOrigin /\ zooming /\ f # Null /\ transformOrigin = "top left"
        reset == runOrigin /\ ~zooming /\ transformOrigin # "top left"
        captured == IF capture THEN f ELSE zoomStateRef
        scrolledBy == IF reset /\ shift THEN "shifted" ELSE containerScroll
        runRestore == r # renderedScale \/ p # pageNumber \/ fit # isFitToScreenAction
    IN  /\ viewScale' = s
        /\ renderedScale' = r
        /\ zoomFocalPoint' = f
        /\ isFitToScreenAction' = fit
        /\ pageNumber' = p
        /\ transformOrigin' = IF capture THEN "focal point"
                              ELSE IF reset THEN "top left"
                              ELSE transformOrigin
        /\ IF ~runRestore
           THEN /\ zoomStateRef' = captured
                /\ containerScroll' = scrolledBy
                /\ UNCHANGED prevPageNumberRef
           ELSE /\ zoomStateRef' = Null
                /\ prevPageNumberRef' = p
                /\ containerScroll' =
                       IF captured # Null THEN "anchor"
                       ELSE IF prevPageNumberRef # p THEN "origin"
                       ELSE IF fit THEN "origin"
                       ELSE scrolledBy
        /\ zoomTimeoutRef' =
               IF s = viewScale THEN zoomTimeoutRef
               ELSE IF Abs(s - r) < 10 THEN Null
               ELSE IF isPinchingRef' THEN Null
               ELSE s

Event(name) ==
    /\ nViewerEvents < MaxViewerEvents
    /\ nViewerEvents' = nViewerEvents + 1
    /\ lastEvent' = name

ClampTo(lo, s, hi) == IF s < lo THEN lo ELSE IF s > hi THEN hi ELSE s

\* handleWheel with ctrlKey at the screen point f; delta = -deltaY * 0.003
ViewerWheel(f, delta, shift) ==
    /\ Event("wheel")
    /\ UNCHANGED <<isPinchingRef, touchStartScaleRef, dimensionsKnown>>
    /\ CommitRender(ClampTo(200, viewScale + delta, 5000), renderedScale, f, TRUE,
              isFitToScreenAction, pageNumber, shift)
    /\ UNCHANGED ViewerRest

\* handleToolbarZoom(newScale), from the zoom buttons of the Toolbar:
\* Math.min(3.0, scale + 0.1) and Math.max(0.5, scale - 0.1)
ToolbarZoom(up, shift) ==
    /\ Event("toolbar")
    /\ UNCHANGED <<isPinchingRef, touchStartScaleRef, dimensionsKnown>>
    /\ CommitRender(IF up THEN (IF viewScale + 100 > 3000 THEN 3000 ELSE viewScale + 100)
                    ELSE (IF viewScale - 100 < 500 THEN 500 ELSE viewScale - 100),
              renderedScale, CenterPoint, TRUE, isFitToScreenAction, pageNumber, shift)
    /\ UNCHANGED ViewerRest

\* handleFitToScreen; best = Math.min(2.0, bestScale)
FitToScreen(best, shift) ==
    /\ UNCHANGED <<isPinchingRef, touchStartScaleRef, dimensionsKnown>>
    /\ IF ~dimensionsKnown
       THEN /\ Event("fit without dimensions")
            /\ CommitRender(1000, 1000, zoomFocalPoint, FALSE, isFitToScreenAction, pageNumber, shift)
       ELSE /\ Event("fit to screen")
            /\ CommitRender(best, best, zoomFocalPoint, FALSE, TRUE, pageNumber, shift)
    /\ UNCHANGED ViewerRest

\* onTouchStart with two touches whose midpoint is f
PinchStart(f, shift) ==
    /\ ~isPinchingRef
    /\ Event("touch start")
    /\ isPinchingRef' = TRUE
    /\ touchStartScaleRef' = viewScale
    /\ UNCHANGED dimensionsKnown
    /\ CommitRender(viewScale, renderedScale, f, TRUE, isFitToScreenAction, pageNumber, shift)
    /\ UNCHANGED ViewerRest

\* onTouchMove with two touches and the frame it requests;
\* ratio = currentDist / touchStartDist, in thousandths
PinchMove(ratio, shift) ==
    /\ isPinchingRef
    /\ Event("touch move")
    /\ UNCHANGED <<isPinchingRef, touchStartScaleRef, dimensionsKnown>>
    /\ CommitRender(ClampTo(100, (touchStartScaleRef * ratio) \div 1000, 10000), renderedScale,
              zoomFocalPoint, FALSE, isFitToScreenAction, pageNumber, shift)
    /\ UNCHANGED ViewerRest

\* onTouchEnd of a pinch with fewer than two touches left
PinchEnd(shift) ==
    /\ isPinchingRef
    /\ Event("touch end")
    /\ isPinchingRef' = FALSE
    /\ UNCHANGED <<touchStartScaleRef, dimensionsKnown>>
    /\ CommitRender(viewScale, viewScale, zoomFocalPoint, FALSE, isFitToScreenAction, pageNumber, shift)
    /\ UNCHANGED ViewerRest

\* the callback of the debounce timer, 150 ms after the last change of scale;
\* zoomTimeoutRef holds the scale of the render that set the timer
DebounceFires(shift) ==
    /\ zoomTimeoutRef # Null
    /\ Event("timer")
    /\ UNCHANGED <<isPinchingRef, touchStartScaleRef, dimensionsKnown>>
    /\ CommitRender(viewScale, zoomTimeoutRef, zoomFocalPoint, FALSE, FALSE, pageNumber, shift)
    /\ UNCHANGED ViewerRest

\* changePage / setPageNumber
ChangePage(p) ==
    /\ p # pageNumber
    /\ Event("page")
    /\ UNCHANGED <<isPinchingRef, touchStartScaleRef, dimensionsKnown>>
    /\ CommitRender(viewScale, renderedScale, zoomFocalPoint, FALSE, isFitToScreenAction, p, FALSE)
    /\ UNCHANGED ViewerRest

\* onPageDimensions and onContainerDimensions have reported the sizes
DimensionsReported ==
    /\ ~dimensionsKnown
    /\ dimensionsKnown' = TRUE
    /\ UNCHANGED <<viewScale, renderedScale, zoomFocalPoint, isFitToScreenAction, pageNumber,
                   transformOrigin, zoomStateRef, prevPageNumberRef, containerScroll,
                   zoomTimeoutRef, isPinchingRef, touchStartScaleRef, nViewerEvents, lastEvent>>
    /\ UNCHANGED ViewerRest

\* the user scrolls the pages of a document away from the origin
ViewerScroll ==
    /\ dimensionsKnown
    /\ Event("scroll")
    /\ containerScroll' = "user"
    /\ UNCHANGED <<viewScale, renderedScale, zoomFocalPoint, isFitToScreenAction, pageNumber,
                   transformOrigin, zoomStateRef, prevPageNumberRef,
                   zoomTimeoutRef, isPinchingRef, touchStartScaleRef, dimensionsKnown>>
    /\ UNCHANGED ViewerRest

\* the inputs of the handlers
FocalPoints == {1, 2}
WheelSteps  == {3, 300, 0 - 300}
ViewerFitScales == {800, 1300}
PinchRatios == {500, 1004, 2000}
Pages       == {1, 2}

ViewerNext ==
    \/ \E f \in FocalPoints, d \in WheelSteps, b \in BOOLEAN : ViewerWheel(f, d, b)
    \/ \E up \in BOOLEAN, b \in BOOLEAN : ToolbarZoom(up, b)
    \/ \E s \in ViewerFitScales, b \in BOOLEAN : FitToScreen(s, b)
    \/ \E f \in FocalPoints, b \in BOOLEAN : PinchStart(f, b)
    \/ \E r \in PinchRatios, b \in BOOLEAN : PinchMove(r, b)
    \/ \E b \in BOOLEAN : PinchEnd(b)
    \/ \E b \in BOOLEAN : DebounceFires(b)
    \/ \E p \in Pages : ChangePage(p)
    \/ DimensionsReported
    \/ ViewerScroll

ViewerSpec == Init /\ [][ViewerNext]_vars

\* ------------------------------------------------------- useVirtualizer
\* calculateVisibleRange of useVirtualizer.  Lengths are in tenths of a
\* pixel.  virtIn holds what the function reads: numPages, isEnabled, the
\* container (hasContainer, scrollTop, clientHeight), scale,
\* basePageDimensions.height (base) and the heights in pageDimensionsMap
\* (dims), Null where there is none.

\* DEFAULT_CONFIG: overscanBefore, overscanAfter, and pageGap = 16 px
OverscanBefore == 2
OverscanAfter == 2
PageGap == 160
\* 800 * 1.414 px, the height assumed for a page of unknown size
A4Height == 11312

\* getPageHeight(pageNum)
GetPageHeight(in, pageNum) ==
    IF in.dims[pageNum] # Null THEN in.dims[pageNum] * in.scale
    ELSE IF in.base # Null THEN in.base * in.scale
    ELSE A4Height * in.scale

\* getCumulativeHeight(upToPage)
RECURSIVE GetCumulativeHeight(_, _)
GetCumulativeHeight(in, upToPage) ==
    IF upToPage <= 1 THEN 0
    ELSE GetCumulativeHeight(in, upToPage - 1) + GetPageHeight(in, upToPage - 1) + PageGap

\* the first loop, from page i on: firstVisible keeps its initial value 1
\* when no page breaks the loop
RECURSIVE FirstVisibleFrom(_, _, _)
FirstVisibleFrom(in, i, cumulative) ==
    IF i > in.numPages THEN 1
    ELSE IF cumulative + GetPageHeight(in, i) > in.scrollTop THEN i
    ELSE FirstVisibleFrom(in, i + 1, cumulative + GetPageHeight(in, i) + PageGap)

\* the second loop, from page i on
RECURSIVE LastVisibleFrom(_, _, _, _)
LastVisibleFrom(in, i, cumulative, lastVisible) ==
    IF i > in.numPages THEN lastVisible
    ELSE IF cumulative > in.scrollTop + in.clientHeight THEN lastVisible
    ELSE LastVisibleFrom(in, i + 1, cumulative + GetPageHeight(in, i) + PageGap, i)

\* the loop that adds up the bottom spacer, from page i on
RECURSIVE BottomSpacerFrom(_, _)
BottomSpacerFrom(in, i) ==
    IF i > in.numPages THEN 0
    ELSE GetPageHeight(in, i) + PageGap + BottomSpacerFrom(in, i + 1)

\* the area of page i inside the viewport
VisibleArea(in, i) ==
    LET pageTop == GetCumulativeHeight(in, i)
        pageBottom == pageTop + GetPageHeight(in, i)
        visibleTop == IF in.scrollTop > pageTop THEN in.scrollTop ELSE pageTop
        visibleBottom == IF in.scrollTop + in.clientHeight < pageBottom
                         THEN in.scrollTop + in.clientHeight ELSE pageBottom
    IN  IF visibleBottom - visibleTop > 0 THEN visibleBottom - visibleTop ELSE 0

\* the loop that picks the most visible page, from page i on
RECURSIVE CurrentPageFrom(_, _, _, _, _)
CurrentPageFrom(in, i, lastVisible, currentPage, maxVisibleArea) ==
    IF i > lastVisible THEN currentPage
    ELSE IF VisibleArea(in, i) > maxVisibleArea
         THEN CurrentPageFrom(in, i + 1, lastVisible, i, VisibleArea(in, i))
         ELSE CurrentPageFrom(in, i + 1, lastVisible, currentPage, maxVisibleArea)

\* calculateVisibleRange() with the hook state `state`
CalculateVisibleRange(in, state) ==
    IF ~in.hasContainer \/ ~in.isEnabled \/ in.numPages = 0 THEN state
    ELSE LET firstVisible == FirstVisibleFrom(in, 1, 0)
             lastVisible == LastVisibleFrom(in, firstVisible,
                                GetCumulativeHeight(in, firstVisible), firstVisible)
             renderStart == IF firstVisible - OverscanBefore < 1 THEN 1
                            ELSE firstVisible - OverscanBefore
             renderEnd == IF lastVisible + OverscanAfter > in.numPages THEN in.numPages
                          ELSE lastVisible + OverscanAfter
         IN  [visibleRange |-> <<firstVisible, lastVisible>>,
              renderRange |-> <<renderStart, renderEnd>>,
              topSpacerHeight |-> GetCumulativeHeight(in, renderStart),
              bottomSpacerHeight |-> BottomSpacerFrom(in, renderEnd + 1),
              currentPage |-> CurrentPageFrom(in, firstVisible, lastVisible, firstVisible, 0)]

\* what a virtualizer action leaves alone
VirtRest == <<loadVars, poolTileVars, tileCompVars, workerVars, layerVars,
              geomVars, zoomVars, scrollVars, pocVars, viewerVars>>

\* recalculate(): setState(calculateVisibleRange())
Recalculate ==
    /\ ~virtDone
    /\ virtState' = CalculateVisibleRange(virtIn, virtState)
    /\ virtDone' = TRUE
    /\ UNCHANGED virtIn
    /\ UNCHANGED VirtRest

\* the container is scrolled to t
VirtScroll(t) ==
    /\ virtIn.hasContainer
    /\ t # virtIn.scrollTop
    /\ virtIn' = [virtIn EXCEPT !.scrollTop = t]
    /\ virtDone' = FALSE
    /\ UNCHANGED virtState
    /\ UNCHANGED VirtRest

\* the inputs
PageHeights == {Null, 2000, 6000}
BaseHeights == {Null, 3000}
VirtScales == {1, 2}
ScrollTops == {0, 1000, 2159, 2160, 5000, 9000, 20000, 100000}
ClientHeights == {4000}
VirtInputs ==
    [numPages : 1 .. MaxPages, isEnabled : BOOLEAN, hasContainer : {TRUE},
     scrollTop : {0}, clientHeight : ClientHeights, scale : VirtScales,
     base : BaseHeights, dims : [1 .. MaxPages -> PageHeights]]

VirtInit ==
    /\ PoolInit /\ GeomIdle /\ ZoomIdle /\ ScrollIdle /\ PocIdle /\ ViewerIdle
    /\ virtIn \in VirtInputs
    /\ virtState = InitialVirtState
    /\ virtDone = FALSE

VirtNext ==
    \/ Recalculate
    \/ \E t \in ScrollTops : VirtScroll(t)

VirtSpec == VirtInit /\ [][VirtNext]_vars


\* ================================================================ claims

\* ------------------------------------------------------------------ C1
\* C1: a loadDocument promise is resolved only when all N workers have
\* answered that call's own LOAD_DOCUMENT broadcast with DOCUMENT_LOADED.
C1_ResolvedOnlyAfterOwnAcks ==
    \A p \in LoadCalls :
        loadPromise[p].state = "resolved" => loadMsg[p].loaded = NumWorkers

\* ------------------------------------------------------------------ C2
\* C2: while a load is pending, a DOCUMENT_ERROR rejects its promise in the
\* same step, whatever the count of acknowledgements; a load promise is
\* settled by one call only and a rejected one never changes again; a
\* pending record always has fewer than N acknowledgements, so N-1 LOADED
\* and one ERROR end rejected in any order.
C2_FailFast ==
    [][ /\ \A p \in LoadCalls :
              (loadMsg'[p].error > loadMsg[p].error /\ pendingLoad.call # Null)
                  => /\ loadPromise'[pendingLoad.call].state = "rejected"
                     /\ loadPromise'[pendingLoad.call].reason = "worker"
                     /\ pendingLoad'.call = Null
        /\ \A p \in LoadCalls :
              /\ loadPromise'[p].calls <= 1
              /\ loadPromise[p].state = "rejected" => loadPromise'[p] = loadPromise[p]
        /\ pendingLoad'.call # Null
              => /\ pendingLoad'.loadedCount < NumWorkers
                 /\ loadPromise'[pendingLoad'.call].state = "pending"
      ]_vars

\* a load rejected by a worker's error after N-1 workers had acknowledged it
C2_Witness ==
    \E p \in LoadCalls :
        /\ loadPromise[p].state = "rejected"
        /\ loadPromise[p].reason = "worker"
        /\ loadPromise[p].calls = 1
        /\ loadMsg[p].loaded = NumWorkers - 1
        /\ loadMsg[p].error = 1

\* ------------------------------------------------------------------ C3
\* C3: a loadDocument call made while a load is pending leaves the earlier
\* promise rejected as "superseded" in the very state in which the new
\* broadcast is out, and the pending promises are at every moment exactly
\* the one the pendingLoad record belongs to (so at most one).
C3_Supersede ==
    [][ /\ (nLoads' = nLoads + 1 /\ pendingLoad.call # Null)
              => /\ loadPromise'[pendingLoad.call].state = "rejected"
                 /\ loadPromise'[pendingLoad.call].reason = "superseded"
                 /\ loadMsg'[nLoads'].sent = NumWorkers
                 /\ pendingLoad'.call = nLoads'
        /\ \A p \in LoadCalls :
              loadPromise'[p].state = "pending" <=> pendingLoad'.call = p
      ]_vars

\* the first load superseded, the second pending with its broadcast out
C3_Witness ==
    \E p \in LoadCalls :
        /\ p + 1 \in LoadCalls
        /\ loadPromise[p].state = "rejected"
        /\ loadPromise[p].reason = "superseded"
        /\ pendingLoad.call = p + 1
        /\ loadMsg[p + 1].sent = NumWorkers


\* ------------------------------------------------------------- tiles
Issued == 1 .. nRenders

\* the components that hold bitmap b, in their state or in a state update
Owners(b) == {c \in Calls : bitmap[c] = b \/ pendingBitmap[c] = b}

\* ------------------------------------------------------------------ C4
\* C4: when the tile of call m was cancelled while in flight, the
\* TILE_READY that answers its RENDER_TILE resolves no promise, hands the
\* bitmap to no component (so no cache entry becomes ready) and closes the
\* bitmap in that step.
C4_LateResultDiscarded ==
    [][ \A m \in Calls :
          (tileMsg[m] = "sent" /\ tileMsg'[m] = "ready" /\ ~isMounted[m])
              => /\ promise' = promise
                 /\ pendingBitmap' = pendingBitmap
                 /\ closed'[m] = 1
      ]_vars

\* ------------------------------------------------------------------ C5
\* C5: a delivered bitmap has at most one owner, is never closed twice, is
\* open while it has an owner and is closed once it has none.
C5_BitmapClosedExactlyOnce ==
    \A b \in Calls :
        tileMsg[b] = "ready"
            => /\ Cardinality(Owners(b)) <= 1
               /\ closed[b] <= 1
               /\ (Owners(b) # {} => closed[b] = 0)
               /\ (Owners(b) = {} => closed[b] = 1)

\* ------------------------------------------------------------------ C6
\* C6: a TILE_READY whose id has an entry resolves that entry's promise with
\* the delivered bitmap and removes that entry only; one whose id has no
\* entry resolves nothing, leaves the table as it is and closes the bitmap.
C6_TileReady ==
    [][ \A m \in Calls :
          (tileMsg[m] = "sent" /\ tileMsg'[m] = "ready")
              => LET t   == tileOf[m]
                     job == jobQueue[t]
                 IN IF job # Null
                    THEN /\ promise'[job].state = "resolved"
                         /\ promise'[job].value = m
                         /\ jobQueue'[t] = Null
                         /\ \A u \in TileIds \ {t} : jobQueue'[u] = jobQueue[u]
                         /\ \A c \in Calls \ {job} : promise'[c] = promise[c]
                         /\ closed'[m] = 0
                    ELSE /\ promise' = promise
                         /\ jobQueue' = jobQueue
                         /\ closed'[m] = 1
      ]_vars

\* one answer resolved a registered job, another found no entry and was closed
C6_Witness ==
    \E c, m \in Calls :
        /\ c # m
        /\ promise[c].state = "resolved" /\ promise[c].value = c /\ closed[c] = 0
        /\ tileMsg[m] = "ready" /\ closed[m] = 1
        /\ \A d \in Calls : promise[d].by # m

\* ------------------------------------------------------------------ C7
\* C7: when the tiles requested have pairwise distinct ids and none was
\* cancelled in flight, every promise whose answer has arrived was settled
\* exactly once, by its own answer, every other promise is pending with its
\* entry in the table, and the table is empty once all answers have arrived.
DistinctIds == \A c, d \in Issued : c # d => tileOf[c] # tileOf[d]
NoneCancelledInFlight == \A c \in Issued : isMounted[c] \/ promise[c].state # "pending"

C7_AnyArrivalOrder ==
    (DistinctIds /\ NoneCancelledInFlight)
        => /\ \A c \in Issued :
                /\ tileMsg[c] = "sent"
                      => promise[c].state = "pending" /\ promise[c].calls = 0
                         /\ jobQueue[tileOf[c]] = c
                /\ tileMsg[c] = "ready"
                      => promise[c].state = "resolved" /\ promise[c].calls = 1
                         /\ promise[c].by = c /\ promise[c].value = c
                /\ tileMsg[c] = "error"
                      => promise[c].state = "rejected" /\ promise[c].calls = 1
                         /\ promise[c].by = c
           /\ (\A c \in Issued : tileMsg[c] # "sent") => \A t \in TileIds : jobQueue[t] = Null

\* three tiles in flight, answered in an order other than the dispatch order
C7_Witness ==
    /\ nRenders = 3
    /\ DistinctIds /\ NoneCancelledInFlight
    /\ tileMsg[1] = "sent" /\ tileMsg[2] = "error" /\ tileMsg[3] = "ready"
    /\ promise[3].by = 3 /\ promise[2].by = 2

\* ------------------------------------------------------------------ C8
\* C8: a TILE_ERROR rejects only the promise registered under its id and
\* removes only that entry; the pending load, the load promises and every
\* other job and promise stay as they are.
C8_TileErrorIsolated ==
    [][ \A m \in Calls :
          (tileMsg[m] = "sent" /\ tileMsg'[m] = "error")
              => LET t   == tileOf[m]
                     job == jobQueue[t]
                 IN /\ pendingLoad' = pendingLoad
                    /\ loadPromise' = loadPromise
                    /\ \A u \in TileIds \ {t} : jobQueue'[u] = jobQueue[u]
                    /\ \A c \in Calls \ {job} : promise'[c] = promise[c]
                    /\ job # Null => promise'[job].state = "rejected" /\ jobQueue'[t] = Null
                    /\ job = Null => promise' = promise /\ jobQueue' = jobQueue
      ]_vars

\* a tile was rejected while a load with one acknowledgement is pending and
\* another job is registered
C8_Witness ==
    \E m \in Calls :
        /\ tileMsg[m] = "error" /\ promise[m].state = "rejected"
        /\ pendingLoad.call # Null /\ pendingLoad.loadedCount = 1
        /\ \E c \in Calls \ {m} : promise[c].state = "pending" /\ jobQueue[tileOf[c]] = c

\* ------------------------------------------------------------------ C9
\* C9: of any k consecutive renderTile calls, each worker is sent
\* floor(k/n) or ceil(k/n) RENDER_TILE messages.
SentTo(w, a, b) == Cardinality({c \in (a + 1) .. b : workerOf[c] = w})

C9_RoundRobin ==
    \A a, b \in 0 .. nRenders :
        a <= b =>
            \A w \in Workers :
                LET k == b - a
                IN  \/ SentTo(w, a, b) = k \div NumWorkers
                    \/ SentTo(w, a, b) = (k + NumWorkers - 1) \div NumWorkers

\* more calls than workers, with a completion and a cancellation in between
C9_Witness ==
    /\ nRenders > NumWorkers
    /\ \E c \in Issued : tileMsg[c] # "sent"
    /\ \E c \in Issued : ~isMounted[c]
    /\ SentTo(0, 0, nRenders) > SentTo(NumWorkers - 1, 0, nRenders)

\* ------------------------------------------------------------------ C10
\* C10: a renderTile call whose promise is neither settled nor cancelled
\* has an entry in the job table under its tile id.
C10_PendingHasEntry ==
    \A c \in Issued :
        (promise[c].state = "pending" /\ isMounted[c]) => jobQueue[tileOf[c]] # Null


\* ----------------------------------------------------------- workers
\* the handler of worker w for msg has run to its end
Finished(w, msg) ==
    /\ \A i \in 1 .. Len(inbox[w]) : inbox[w][i] # msg
    /\ msg \notin handling[w]

\* ------------------------------------------------------------------ C11
\* C11: once the handler of a worker for a RENDER_TILE request has run to
\* its end, the worker has posted one TILE_READY or TILE_ERROR for it,
\* whether or not the worker held a document.
C11_RenderTileAnswered ==
    \A c \in Issued :
        Finished(workerOf[c], RenderTileMsg(c)) => tileMsg[c] \in {"ready", "error"}

\* ------------------------------------------------------------------ C12
\* C12: for every url, the empty one included, the answers posted for a
\* LOAD_DOCUMENT broadcast are as many as the workers whose handler for it
\* has run to its end.
C12_LoadDocumentAnswered ==
    \A p \in 1 .. nLoads :
        loadMsg[p].loaded + loadMsg[p].error
            = Cardinality({w \in Workers : Finished(w, LoadDocumentMsg(p))})

\* ------------------------------------------------------------------ C13
\* C13: whatever failed before, a load that was not superseded and that all
\* N workers have acknowledged is resolved, and a tile that was not cancelled
\* and whose worker has answered TILE_READY is resolved.
C13_UsableAfterFailure ==
    /\ \A p \in 1 .. nLoads :
          (loadMsg[p].loaded = NumWorkers /\ loadPromise[p].reason # "superseded")
              => loadPromise[p].state = "resolved"
    /\ \A c \in Issued :
          (tileMsg[c] = "ready" /\ isMounted[c]) => promise[c].state = "resolved"


\* ------------------------------------------------------------ tile layer
CacheIds == IdsOf(tileCache)
VisibleIds(transform) == IdsOf(VisibleTiles(transform))

\* a step in which the tilesToRender memo ran
PassStep == passParity' # passParity

\* ------------------------------------------------------------------ C14
\* C14: after a pass every visible tile has a cache entry, and an entry the
\* pass inserted is not ready; once the effects of a pass have run, a pass
\* with the same visible set would insert no entry and leave no tile of its
\* list without a mounted child (no second render request).
C14_VisibleCached ==
    [][ /\ PassStep =>
              /\ VisibleIds(viewportTransform') \subseteq IdsOf(tileCache')
              /\ \A id \in IdsOf(tileCache') \ CacheIds : ~Get(tileCache', id).isReady
        /\ (PassStep /\ EffectsFlushed /\ VisibleIds(viewportTransform') = VisibleIds(viewportTransform)
               /\ VisibleIds(viewportTransform) \subseteq CacheIds) =>
              /\ IdsOf(tileCache') \subseteq CacheIds
              /\ nRenders' = nRenders
              /\ EffectsFlushed'
      ]_vars

\* a pass was repeated for a visible set whose tile is cached, not ready and
\* has been requested
C14_Witness ==
    /\ passParity = 0
    /\ EffectsFlushed
    /\ nRenders = 1
    /\ \E c \in Mounted :
          /\ tileOf[c] \in VisibleIds(viewportTransform)
          /\ Has(tileCache, tileOf[c])
          /\ ~Get(tileCache, tileOf[c]).isReady
          /\ tileMsg[c] = "sent"

\* ------------------------------------------------------------------ C15
\* C15: a pass keeps, in the cache and in its list, every cached tile that
\* is not visible, is ready, has a LOD lower than the LOD selected for the
\* scale, and whose rectangle overlaps the visible rectangle grown by
\* tile width * buffer on every side.
StrictlyOverlaps(ct, transform) ==
    LET vw == VisibleWorld(ViewportSize, transform)
        bw == ct.width * Buffer
    IN /\ ct.x < vw.x + vw.width + bw
       /\ vw.x - bw < ct.x + ct.width
       /\ ct.y < vw.y + vw.height + bw
       /\ vw.y - bw < ct.y + ct.height

C15_PlaceholderRetained ==
    [][ PassStep =>
          \A i \in 1 .. Len(tileCache) :
              LET ct == tileCache[i]
              IN (/\ ct.id \notin VisibleIds(viewportTransform')
                  /\ ct.lod < SelectLod(viewportTransform'.scale)
                  /\ ct.isReady
                  /\ StrictlyOverlaps(ct, viewportTransform'))
                     => /\ ct.id \in IdsOf(tileCache')
                        /\ \E j \in 1 .. Len(tilesToRender') : tilesToRender'[j] = ct.id
      ]_vars

\* ------------------------------------------------------------------ C16
\* C16: a unit cell of the world that a ready tile of the list covers stays
\* covered by a ready tile of the list when a pass raises the selected LOD
\* (for the cells of the new visible rectangle) and in every step that is
\* not a pass, whichever answer arrives.
Cells == {<<cx, cy>> : cx \in 0 .. 12, cy \in 0 .. 3}

VisibleCells(transform) ==
    LET vw == VisibleWorld(ViewportSize, transform)
    IN {cell \in Cells : /\ vw.x <= cell[1] /\ cell[1] + 1 <= vw.x + vw.width
                         /\ vw.y <= cell[2] /\ cell[2] + 1 <= vw.y + vw.height}

Covers(ct, cell) ==
    /\ ct.x <= cell[1] /\ cell[1] + 1 <= ct.x + ct.width
    /\ ct.y <= cell[2] /\ cell[2] + 1 <= ct.y + ct.height

CoveredReady(cache, list, cell) ==
    \E j \in 1 .. Len(list) :
        /\ Has(cache, list[j])
        /\ Get(cache, list[j]).isReady
        /\ Covers(Get(cache, list[j]), cell)

C16_NoHole ==
    [][ /\ (PassStep /\ SelectLod(viewportTransform'.scale) > SelectLod(viewportTransform.scale)) =>
              \A cell \in VisibleCells(viewportTransform') :
                  CoveredReady(tileCache, tilesToRender, cell)
                      => CoveredReady(tileCache', tilesToRender', cell)
        /\ ~PassStep =>
              \A cell \in VisibleCells(viewportTransform) :
                  CoveredReady(tileCache, tilesToRender, cell)
                      => CoveredReady(tileCache', tilesToRender', cell)
      ]_vars

\* zoomed in on a ready tile: it is shown as a placeholder under the tiles of
\* the higher LOD, one of which has answered and one has not
C16_Witness ==
    /\ SelectLod(viewportTransform.scale) = 2
    /\ EffectsFlushed
    /\ \E j \in 1 .. Len(tilesToRender) :
          Get(tileCache, tilesToRender[j]).lod = 1 /\ Get(tileCache, tilesToRender[j]).isReady
    /\ \E c, d \in Mounted :
          /\ Get(tileCache, tileOf[c]).lod = 2 /\ tileMsg[c] = "sent"
          /\ Get(tileCache, tileOf[d]).lod = 2 /\ tileMsg[d] # "sent"
    /\ \A cell \in VisibleCells(viewportTransform) : CoveredReady(tileCache, tilesToRender, cell)

\* ------------------------------------------------------------------ C17
\* C17: once a pass and its effects have run, every cached tile is visible
\* or a ready lower-LOD tile touching the grown visible rectangle, and every
\* tile that is not cached has no mounted child, no job under its id, and
\* every bitmap delivered for it closed.
C17_OthersEvicted ==
    (EffectsFlushed /\ VisibleIds(viewportTransform) \subseteq CacheIds) =>
        /\ \A i \in 1 .. Len(tileCache) :
              LET ct == tileCache[i]
              IN \/ ct.id \in VisibleIds(viewportTransform)
                 \/ /\ ct.isReady
                    /\ ct.lod < SelectLod(viewportTransform.scale)
                    /\ Overlaps(ct, viewportTransform)
        /\ \A c \in Issued :
              tileOf[c] \notin CacheIds =>
                  /\ ~isMounted[c]
                  /\ jobQueue[tileOf[c]] = Null
                  /\ promise[c].state = "resolved" => closed[promise[c].value] = 1

\* ------------------------------------------------------------------ C18
\* C18: while LOD 2 is selected, a ready LOD-1 placeholder whose cells in
\* the visible rectangle are all covered by ready LOD-2 tiles is eventually
\* no longer kept in the cache as a placeholder.
Superseded(ct) ==
    /\ SelectLod(viewportTransform.scale) = 2
    /\ ct.lod = 1 /\ ct.isReady
    /\ ct.id \notin VisibleIds(viewportTransform)
    /\ \E cell \in VisibleCells(viewportTransform) : Covers(ct, cell)
    /\ \A cell \in VisibleCells(viewportTransform) :
          Covers(ct, cell) =>
              \E i \in 1 .. Len(tileCache) :
                  tileCache[i].lod = 2 /\ tileCache[i].isReady /\ Covers(tileCache[i], cell)

SupersededPlaceholder ==
    \E i \in 1 .. Len(tileCache) : Superseded(tileCache[i])

NoLod1Placeholder ==
    \A i \in 1 .. Len(tileCache) :
        tileCache[i].lod = 1 => tileCache[i].id \in VisibleIds(viewportTransform)

C18_PlaceholderEvicted == SupersededPlaceholder ~> NoLod1Placeholder

\* ------------------------------------------------------------------ C19
\* C19: the cache entry of a tile whose render request was answered with
\* TILE_ERROR is not ready, and no such tile is in the list as a placeholder.
C19_ErrorNeverReady ==
    \A c \in Mounted :
        (tileMsg[c] = "error" /\ Has(tileCache, tileOf[c])) =>
            ~Get(tileCache, tileOf[c]).isReady

\* ------------------------------------------------------------------ C20
\* C20: the render list is in ascending order of LOD.
LodOf(id) == Get(tileCache, id).lod

C20_SortedByLod ==
    \A i, j \in 1 .. Len(tilesToRender) :
        i < j => LodOf(tilesToRender[i]) <= LodOf(tilesToRender[j])

\* a list with a LOD-1 placeholder before two LOD-2 tiles
C20_Witness ==
    /\ Len(tilesToRender) = 3
    /\ LodOf(tilesToRender[1]) = 1
    /\ LodOf(tilesToRender[3]) = 2

\* ------------------------------------------------------------------ C21
\* C21: the tiles a getVisibleTiles call returned cover every point of the
\* content that lies in the visible rectangle or in the buffer rings around
\* it exactly once, and none of them lies outside the content.
SamplesPerUnit == 4

Max(S) == CHOOSE x \in S : \A y \in S : y <= x

\* world points, none on a tile edge: the midpoints of a grid of 1/SamplesPerUnit
SampleXs == {Q(2 * i + 1, 2 * SamplesPerUnit) : i \in 0 .. (Max(ContentWidths) * SamplesPerUnit - 1)}
SampleYs == {Q(2 * j + 1, 2 * SamplesPerUnit) : j \in 0 .. (Max(ContentHeights) * SamplesPerUnit - 1)}

\* the smallest level >= scale, the largest level when there is none
ExpectedLod(levels, scale) ==
    LET S  == {levels[i] : i \in 1 .. Len(levels)}
        Up == {l \in S : QLeq(scale, l)}
    IN IF Up = {} THEN CHOOSE l \in S : \A u \in S : QLeq(u, l)
       ELSE CHOOSE l \in Up : \A u \in Up : QLeq(l, u)

\* the index of the tile-grid column (row) that holds world coordinate p
GridIndex(config, lod, p) == QFloor(QDiv(QMul(p, lod), QInt(config.tileSize)))

\* p is within `buffer` columns (rows) of a column that holds a point of
\* the visible interval [from, from + length)
InRings(config, lod, from, length, p) ==
    /\ QLess(QInt(0), length)
    /\ LET first == GridIndex(config, lod, from)
           edge  == QDiv(QMul(QAdd(from, length), lod), QInt(config.tileSize))
           last  == QCeil(edge) - 1
           c     == GridIndex(config, lod, p)
       IN first - config.buffer <= c /\ c <= last + config.buffer

InTile(t, px, py) ==
    /\ QLeq(t.x, px) /\ QLess(px, QAdd(t.x, t.width))
    /\ QLeq(t.y, py) /\ QLess(py, QAdd(t.y, t.height))

TilesAt(tiles, px, py) == {i \in 1 .. Len(tiles) : InTile(tiles[i], px, py)}

Tiled(config, a, tiles) ==
    LET lod == ExpectedLod(config.lodLevels, a.transform.scale)
        vx  == QDiv(QNeg(a.transform.x), a.transform.scale)
        vy  == QDiv(QNeg(a.transform.y), a.transform.scale)
        vw  == QDiv(a.viewport.width, a.transform.scale)
        vh  == QDiv(a.viewport.height, a.transform.scale)
    IN /\ \A px \in SampleXs, py \in SampleYs :
              (/\ QLess(px, a.contentSize.width) /\ QLess(py, a.contentSize.height)
               /\ InRings(config, lod, vx, vw, px)
               /\ InRings(config, lod, vy, vh, py))
                  => Cardinality(TilesAt(tiles, px, py)) = 1
       /\ \A i \in 1 .. Len(tiles) :
              /\ QLeq(QInt(0), tiles[i].x) /\ QLess(tiles[i].x, a.contentSize.width)
              /\ QLeq(QInt(0), tiles[i].y) /\ QLess(tiles[i].y, a.contentSize.height)

C21_TilesCoverExactly ==
    \A k \in GeomCalls :
        <<k, "tiles">> \in geomDone =>
            Tiled(configGiven[geomOn[k]], geomArgs[k], geomTiles[k])

\* a call whose visible rectangle reaches over the right edge of the
\* content, with a buffer ring, answered with more than two tiles
C21_Witness ==
    /\ <<1, "tiles">> \in geomDone
    /\ manager[1].buffer = 1
    /\ Len(geomTiles[1]) > 2
    /\ LET a == geomArgs[1]
       IN /\ QLess(a.contentSize.width,
                   QDiv(QAdd(QNeg(a.transform.x), a.viewport.width), a.transform.scale))
          /\ QLess(QInt(0), QDiv(QNeg(a.transform.x), a.transform.scale))

\* ------------------------------------------------------------------ C22
\* C22: whatever the order the levels were given in, getLodForScale and
\* step 1 of getVisibleTiles select the smallest level >= scale, the largest
\* level when scale is above all of them, and so the smallest level when
\* scale is at or below it.
LevelsGiven(m) == {configGiven[m].lodLevels[i] : i \in 1 .. Len(configGiven[m].lodLevels)}

C22_SmallestLevelAtLeastScale ==
    \A k \in GeomCalls :
        LET scale == geomArgs[k].transform.scale
            S     == LevelsGiven(geomOn[k])
            want  == ExpectedLod(configGiven[geomOn[k]].lodLevels, scale)
        IN /\ <<k, "lod">> \in geomDone =>
                 /\ geomLod[k] = want
                 /\ (\A l \in S : QLess(l, scale)) => \A l \in S : QLeq(l, geomLod[k])
                 /\ (\A l \in S : QLeq(scale, l)) => \A l \in S : QLeq(geomLod[k], l)
           /\ <<k, "tiles">> \in geomDone =>
                 \A i \in 1 .. Len(geomTiles[k]) : geomTiles[k][i].lod = want

\* both methods were called on a manager whose levels were given out of
\* order, with a scale that the first given level satisfies and a smaller
\* level satisfies too
C22_Witness ==
    /\ {<<1, "lod">>, <<1, "tiles">>} \subseteq geomDone
    /\ geomTiles[1] # << >>
    /\ configGiven[1].lodLevels # manager[1].lodLevels
    /\ QLeq(geomArgs[1].transform.scale, configGiven[1].lodLevels[1])
    /\ geomLod[1] # configGiven[1].lodLevels[1]

\* ------------------------------------------------------------------ C23
\* C23: of two calls on managers with the same levels, the one with the
\* smaller scale selects the smaller or the same level, and every selected
\* level is one of the configured ones.
C23_LodMonotonic ==
    /\ \A k \in GeomCalls :
          /\ <<k, "lod">> \in geomDone => geomLod[k] \in LevelsGiven(geomOn[k])
          /\ <<k, "tiles">> \in geomDone =>
                \A i \in 1 .. Len(geomTiles[k]) : geomTiles[k][i].lod \in LevelsGiven(geomOn[k])
    /\ \A j, k \in GeomCalls :
          (/\ LevelsGiven(geomOn[j]) = LevelsGiven(geomOn[k])
           /\ QLeq(geomArgs[j].transform.scale, geomArgs[k].transform.scale)) =>
              /\ {<<j, "lod">>, <<k, "lod">>} \subseteq geomDone => QLeq(geomLod[j], geomLod[k])
              /\ {<<j, "tiles">>, <<k, "tiles">>} \subseteq geomDone =>
                    \A a \in 1 .. Len(geomTiles[j]), b \in 1 .. Len(geomTiles[k]) :
                        QLeq(geomTiles[j][a].lod, geomTiles[k][b].lod)

\* two calls with different scales, the larger above every level, answered
\* with different levels
C23_Witness ==
    /\ geomDone = {<<1, "lod">>, <<2, "lod">>, <<1, "tiles">>, <<2, "tiles">>}
    /\ LevelsGiven(geomOn[1]) = LevelsGiven(geomOn[2])
    /\ QLess(geomArgs[1].transform.scale, geomArgs[2].transform.scale)
    /\ \A l \in LevelsGiven(geomOn[2]) : QLess(l, geomArgs[2].transform.scale)
    /\ QLess(geomLod[1], geomLod[2])
    /\ geomTiles[1] # << >> /\ geomTiles[2] # << >>

\* ------------------------------------------------------------------ C24
\* C24: two getVisibleTiles calls with the same arguments, on one manager
\* or on two managers constructed with the same configuration, return the
\* same tiles, and no call writes the configuration a later call reads.
IdsIn(tiles) == {tiles[i].id : i \in 1 .. Len(tiles)}
TilesIn(tiles) == {tiles[i] : i \in 1 .. Len(tiles)}

SameAnswers ==
    \A j, k \in GeomCalls :
        (/\ {<<j, "tiles">>, <<k, "tiles">>} \subseteq geomDone
         /\ geomArgs[j] = geomArgs[k]
         /\ configGiven[geomOn[j]] = configGiven[geomOn[k]]) =>
            /\ IdsIn(geomTiles[j]) = IdsIn(geomTiles[k])
            /\ TilesIn(geomTiles[j]) = TilesIn(geomTiles[k])

ReturnedTiles == UNION {TilesIn(geomTiles[k]) : k \in GeomCalls}

C25_IdIsKey ==
    \A t, u \in ReturnedTiles :
        (t.id = u.id) <=>
            (t.pageIndex = u.pageIndex /\ t.lod = u.lod /\ t.row = u.row /\ t.col = u.col)

\* two calls returned tiles of the same page, row and column at two levels,
\* and one of them returned several tiles
C25_Witness ==
    /\ geomDone = {<<1, "tiles">>, <<2, "tiles">>}
    /\ \E t \in TilesIn(geomTiles[1]), u \in TilesIn(geomTiles[2]) :
          t.row = u.row /\ t.col = u.col /\ t.lod # u.lod /\ t.pageIndex = u.pageIndex
    /\ Len(geomTiles[1]) > 1

\* ------------------------------------------------------------------ C26
\* C26: a getVisibleTiles call with a viewport of width 0 and height 0
\* returns no tile.
C26_EmptyViewportNoTiles ==
    \A k \in GeomCalls :
        (/\ <<k, "tiles">> \in geomDone
         /\ geomArgs[k].viewport.width = QInt(0)
         /\ geomArgs[k].viewport.height = QInt(0)) => geomTiles[k] = << >>

\* ------------------------------------------------------------------ C27
\* C27: a getVisibleTiles call with a content size of zero returns no tile.
C27_EmptyContentNoTiles ==
    \A k \in GeomCalls :
        (/\ <<k, "tiles">> \in geomDone
         /\ (geomArgs[k].contentSize.width = QInt(0) \/ geomArgs[k].contentSize.height = QInt(0)))
            => geomTiles[k] = << >>

\* a call with content of size 0 x 0, a viewport that is not empty and a
\* buffer ring
C27_Witness ==
    /\ <<1, "tiles">> \in geomDone
    /\ geomArgs[1].contentSize = [width |-> QInt(0), height |-> QInt(0)]
    /\ QLess(QInt(0), geomArgs[1].viewport.width)
    /\ QLess(QInt(0), geomArgs[1].viewport.height)
    /\ geomArgs[1].transform.x = QInt(0)
    /\ manager[1].buffer = 1

\* ------------------------------------------------------------------ C28
\* C28: after every zoomToPoint call of a row of calls at one pivot, the
\* world point that was under the pivot before the first of them is mapped
\* to the pivot: world * scale + (x, y) = pivot.
C28_PivotStaysPut ==
    zoomRun.calls > 0 =>
        /\ QAdd(QMul(zoomRun.world.x, transformRef.scale), transformRef.x) = zoomRun.pivot.x
        /\ QAdd(QMul(zoomRun.world.y, transformRef.scale), transformRef.y) = zoomRun.pivot.y

\* the example of the claim, scale 1 to 2 at (250, 250), followed by a
\* second call at the same pivot that was clamped
C28_Witness ==
    /\ zoomRun.calls = 2
    /\ zoomRun.clamped
    /\ zoomRun.pivot = [x |-> QInt(250), y |-> QInt(250)]
    /\ zoomRun.world = [x |-> QInt(250), y |-> QInt(250)]
    /\ transformRef.scale = MaxScale

\* ------------------------------------------------------------------ C29
Settled == Idle /\ anchor.live

\* distance on the screen, at the scale shown, between the anchor and the
\* place where the content point that was under it is now
DriftX == QMul(QAbs(QSub(DocPoint(anchor.off, scrollPos, appScale).x, anchor.doc.x)), appScale)
DriftY == QMul(QAbs(QSub(DocPoint(anchor.off, scrollPos, appScale).y, anchor.doc.y)), appScale)

\* C29: once the scale changes made in a row at one focal point (container
\* centre or pinch midpoint) are laid out, the content point that was under
\* the focal point before the first of them is under it again, in both axes,
\* to within one pixel.
C29_AnchorStaysPut ==
    Settled => QLess(DriftX, QInt(1)) /\ QLess(DriftY, QInt(1))

\* ------------------------------------------------------------------ C30
Position(step) ==
    IF \E i \in 1 .. Len(zoomSteps) : zoomSteps[i] = step
    THEN CHOOSE i \in 1 .. Len(zoomSteps) : zoomSteps[i] = step
    ELSE 0

Times(step) == Cardinality({i \in 1 .. Len(zoomSteps) : zoomSteps[i] = step})

\* C30: the steps of a scale change come in the order capture, apply,
\* restore, at most once each, and the compensating scroll (restore) is
\* made only after the layout for the new scale is committed.
C30_CaptureApplyRestore ==
    /\ \A step \in {"capture", "apply", "restore"} : Times(step) <= 1
    /\ Position("apply") > 0 => Position("capture") > 0 /\ Position("capture") < Position("apply")
    /\ Position("restore") > 0 =>
          /\ Position("commit") > 0
          /\ Position("apply") < Position("commit")
          /\ Position("commit") < Position("restore")

\* ------------------------------------------------------------------ C33
\* C33: the outcome of a load depends only on the answers to its own
\* broadcast: the pending record counts no more DOCUMENT_LOADED than were
\* sent for its call, a resolved load was acknowledged by every worker and
\* reports its own document's dimensions, and a load rejected by a worker
\* got a DOCUMENT_ERROR of its own.
C33_OwnAnswersOnly ==
    /\ pendingLoad.call # Null =>
          pendingLoad.loadedCount <= loadMsg[pendingLoad.call].loaded
    /\ \A p \in LoadCalls :
          /\ loadPromise[p].state = "resolved" =>
                loadMsg[p].loaded = NumWorkers /\ loadPromise[p].dims = p
          /\ loadPromise[p].state = "rejected" /\ loadPromise[p].reason = "worker" =>
                loadMsg[p].error > 0

\* ------------------------------------------------------------------ C34
\* C34: when the load that followed another one is resolved, every worker
\* holds the document of that load.
C34_WorkersHoldLatest ==
    \A p \in LoadCalls :
        p > 1 /\ p = nLoads /\ loadPromise[p].state = "resolved" =>
            \A w \in Workers : pdfDoc[w] = p

\* ------------------------------------------------------------------ C36
\* C36: the render list holds no tile id twice, and every entry of the list
\* is an entry of the cache.
C36_ListDistinctAndCached ==
    /\ \A i, j \in 1 .. Len(tilesToRender) :
          tilesToRender[i] = tilesToRender[j] => i = j
    /\ ListIds \subseteq CacheIds

\* a pass whose list holds a placeholder and more than one visible tile
C36_Witness ==
    /\ passParity = 1
    /\ Len(tilesToRender) > 2
    /\ \E i \in 1 .. Len(tilesToRender) :
          tilesToRender[i] \notin VisibleIds(viewportTransform)

\* ------------------------------------------------------------------ C35
\* C35: a RENDER_TILE is dispatched only when isWorkersReady is set and no
\* document load is outstanding.
C35_NoRenderWhileLoading ==
    [][nRenders' # nRenders => isWorkersReady /\ pendingLoad.call = Null]_vars

\* ------------------------------------------------------------------ C37
\* C37: at most one frame callback is pending, and whenever the element does
\* not show transform.current a frame callback is pending that will apply
\* and report it.
C37_UpdatesReachElement ==
    /\ framesPending <= 1
    /\ styleTransform # transformRef => framesPending > 0

\* ------------------------------------------------------------------ C38
\* C38: once the viewport shows transform.current and no frame is pending
\* (the gesture's last update was applied), the transform the tile layer is
\* given, gridState, equals it.
C38_GridStateCatchesUp ==
    viewportMounted /\ framesPending = 0 /\ rafId = Null /\ styleTransform = transformRef
        => gridState = transformRef
\* ------------------------------------------------------------------ C39
\* C39: once zoom input has stopped (no debounce timer is waiting and no
\* pinch is active) the zooming test |scale - renderedScale| > 0.001 is
\* false.
C39_ZoomingEnds ==
    zoomTimeoutRef = Null /\ ~isPinchingRef => ~IsZooming(viewScale, renderedScale)

\* ------------------------------------------------------------------ C31
\* C31: the restore effect consumes a captured focal point only in the
\* layout pass that commits a new renderedScale.
C31_ConsumedByItsCommit ==
    [][zoomStateRef # Null /\ zoomStateRef' = Null => renderedScale' # renderedScale]_vars

\* ------------------------------------------------------------------ C32
\* C32: after a fit-to-screen request and its restore step the scroll
\* position is the origin.
C32_FitScrollsToOrigin ==
    lastEvent = "fit to screen" => containerScroll = "origin"
\* ------------------------------------------------------------------ C40
\* C40: the state calculateVisibleRange returns for an enabled virtualizer
\* has 1 <= renderStart <= firstVisible <= lastVisible <= renderEnd <=
\* numPages, firstVisible is the first page whose bottom edge is below
\* scrollTop, and currentPage lies in [firstVisible, lastVisible].
C40_RangeOrdered ==
    virtDone /\ virtIn.isEnabled =>
        LET firstVisible == virtState.visibleRange[1]
            lastVisible == virtState.visibleRange[2]
            renderStart == virtState.renderRange[1]
            renderEnd == virtState.renderRange[2]
            Bottom(i) == GetCumulativeHeight(virtIn, i) + GetPageHeight(virtIn, i)
        IN  /\ 1 <= renderStart /\ renderStart <= firstVisible
            /\ firstVisible <= lastVisible
            /\ lastVisible <= renderEnd /\ renderEnd <= virtIn.numPages
            /\ Bottom(firstVisible) > virtIn.scrollTop
            /\ \A j \in 1 .. firstVisible - 1 : Bottom(j) <= virtIn.scrollTop
            /\ virtState.currentPage \in firstVisible .. lastVisible

====
